---- MODULE Spec2Model ----
(***************************************************************************)
(* A model of lunify: the Lua 5.0 -> Lua 5.1 upcaster, the instruction     *)
(* builder it drives, and the top level of unify.                          *)
(***************************************************************************)
EXTENDS Integers, Sequences, FiniteSets, TLC

(***************************************************************************)
(* Bounds of the model.                                                    *)
(***************************************************************************)
\* Longest input instruction list of the general upcast runs.
MaxLen == 3
\* Largest element count of a generated table constructor.
MaxElements == 7
\* Largest fields_per_flush of a generated table constructor run.
MaxFlush == 3
\* Longest instruction list of the runs that vary the function's header fields.
MaxBody == 2
\* The longest constant pool a ConstantManager is handed.
MaxPool == 3
\* The most calls made on one ConstantManager.
MaxCalls == 3

(***************************************************************************)
(* Program constants.                                                      *)
(***************************************************************************)
\* lua51::Settings::default().stack_limit
StackLimit == 250
\* Largest value of the u8 maximum_stack_size
ByteMax == 255
\* size of the B operand in the default Lua 5.1 layout
OutputBSize == 9

Min(x, y) == IF x <= y THEN x ELSE y
Max(x, y) == IF x >= y THEN x ELSE y
Abs(x) == IF x < 0 THEN 0 - x ELSE x
Signum(x) == IF x > 0 THEN 1 ELSE IF x < 0 THEN 0 - 1 ELSE 0

RECURSIVE Pow2(_)
Pow2(n) == IF n = 0 THEN 1 ELSE 2 * Pow2(n - 1)

\* Vec::insert and Vec::remove on 0-based positions of a 1-based sequence.
InsertAt(s, index, e) == SubSeq(s, 1, index) \o <<e>> \o SubSeq(s, index + 1, Len(s))
RemoveAt(s, index) == SubSeq(s, 1, index) \o SubSeq(s, index + 2, Len(s))

(***************************************************************************)
(* Operand modes and instruction modes.                                    *)
(***************************************************************************)
Unused == [kind |-> "Unused", value |-> 0, is_constant |-> FALSE]
Generic(v) == [kind |-> "Generic", value |-> v, is_constant |-> FALSE]
Register(v) == [kind |-> "Register", value |-> v, is_constant |-> FALSE]
ConstantRegister(v, k) == [kind |-> "ConstantRegister", value |-> v, is_constant |-> k]

BC(b, c) == [form |-> "BC", b |-> b, c |-> c, bx |-> 0]
Bx(n) == [form |-> "Bx", b |-> Unused, c |-> Unused, bx |-> n]
SignedBx(n) == [form |-> "SignedBx", b |-> Unused, c |-> Unused, bx |-> n]

\* One instruction of either instruction set: the variant name, a and the mode.
Instruction(op, a, mode) == [op |-> op, a |-> a, mode |-> mode]

\* ModeOffset::offset for one operand.
OperandOffset(operand, stack_start, offset) ==
    IF operand.kind = "Register" /\ operand.value >= stack_start
        THEN [operand EXCEPT !.value = operand.value + offset]
    ELSE IF operand.kind = "ConstantRegister" /\ operand.value >= stack_start /\ ~operand.is_constant
        THEN [operand EXCEPT !.value = operand.value + offset]
    ELSE operand

\* The variants whose a is not a stack slot (move_a = false).
FixedA == {"Jump", "Equals", "LessThan", "LessEquals"}

\* LuaInstruction::move_stack_accesses
move_stack_accesses(instruction, stack_start, offset) ==
    LET a == IF instruction.op \notin FixedA /\ instruction.a >= stack_start
                THEN instruction.a + offset
                ELSE instruction.a
        mode == IF instruction.mode.form = "BC"
                THEN [instruction.mode EXCEPT
                        !.b = OperandOffset(instruction.mode.b, stack_start, offset),
                        !.c = OperandOffset(instruction.mode.c, stack_start, offset)]
                ELSE instruction.mode
    IN  [instruction EXCEPT !.a = a, !.mode = mode]

\* lua51::Instruction::stack_destination: the inclusive range of written slots.
NoDestination == [some |-> FALSE, start |-> 0, end |-> 0]
Destination(s, e) == [some |-> TRUE, start |-> s, end |-> e]

stack_destination(i) ==
    CASE i.op \in {"SetGlobal", "SetUpValue", "Jump", "Equals", "LessThan", "LessEquals",
                   "Test", "TailCall", "Return", "Close"} -> NoDestination
      [] i.op = "LoadNil" -> Destination(i.a, i.mode.b.value)
      [] i.op = "_Self" -> Destination(i.a, i.a + 1)
      [] i.op = "Call" -> Destination(i.a, i.a + i.mode.c.value - 1)
      [] i.op = "ForLoop" -> Destination(i.a, i.a + 3)
      [] i.op = "ForPrep" -> Destination(i.a, i.a + 2)
      [] i.op = "TForLoop" -> Destination(i.a, i.a + 2 + i.mode.c.value)
      [] i.op = "VarArg" -> Destination(i.a, Max(i.a, Max(i.a + i.mode.b.value, 1) - 1))
      [] OTHER -> Destination(i.a, i.a)

(***************************************************************************)
(* Settings: the compile constants of the two inputs and of the output.    *)
(***************************************************************************)
\* "\x1bLua" as bytes
LuaSignature == <<27, 76, 117, 97>>

VersionSettings(stack_limit, fields_per_flush, binary_signature) ==
    [stack_limit |-> stack_limit, fields_per_flush |-> fields_per_flush,
     binary_signature |-> binary_signature, b_size |-> OutputBSize]

\* lua51::Settings::get_constant_bit and get_maximum_constant_index
get_constant_bit(s) == Pow2(s.b_size - 1)
get_maximum_constant_index(s) == get_constant_bit(s) - 1

(***************************************************************************)
(* The instruction builder.  A context carries, besides the fields of      *)
(* InstructionContext, two history fields that no operation reads:         *)
(* emitted_for, the index of the input instruction whose loop iteration    *)
(* created it (-1 for the variadic prologue), and inserted, whether it was *)
(* created by insert_extra_instruction rather than appended.               *)
(***************************************************************************)
InstructionContext_new(instruction, emitted_for) ==
    [instruction |-> instruction, line_weight |-> 0, final_offset |-> 0,
     is_fixed |-> FALSE, emitted_for |-> emitted_for, inserted |-> FALSE]

InstructionContext_new_extra(instruction, emitted_for) ==
    [instruction |-> instruction, line_weight |-> 1, final_offset |-> 0,
     is_fixed |-> FALSE, emitted_for |-> emitted_for, inserted |-> FALSE]

\* InstructionBuilder::default()
EmptyBuilder == [contexts |-> <<>>, line_info |-> <<>>, line_number |-> 0, current |-> 0 - 1]

\* set_line_number, called at the head of every loop iteration (input index k)
set_line_number(b, line_number, k) == [b EXCEPT !.line_number = line_number, !.current = k]

builder_instruction(b, i) ==
    [b EXCEPT !.contexts = Append(@, InstructionContext_new(i, b.current)),
              !.line_info = Append(@, b.line_number)]

extra_instruction(b, i) ==
    [b EXCEPT !.contexts = Append(@, InstructionContext_new_extra(i, b.current)),
              !.line_info = Append(@, b.line_number)]

\* insert_extra_instruction panics when index is no position of line_info.
insert_extra_instruction_panics(b, index) == index < 0 \/ index >= Len(b.line_info)

\* Vec::insert panics when index > len.
insert_extra_instruction(b, index, i) ==
    [b EXCEPT !.contexts = InsertAt(@, index, [InstructionContext_new_extra(i, b.current) EXCEPT !.inserted = TRUE]),
              !.line_info = InsertAt(@, index, b.line_info[index + 1])]

\* remove_instruction panics when index is the last position (nothing follows).
remove_instruction_panics(b, index) ==
    index < 0 \/ index >= Len(b.contexts) \/ index >= Len(b.line_info) \/ index + 1 >= Len(b.contexts)

\* A removal that drops the line weight of the removed entry.
remove_instruction_dropping(b, index) ==
    [b EXCEPT !.contexts = RemoveAt(@, index), !.line_info = RemoveAt(@, index)]

remove_instruction(b, index) ==
    LET removed == b.contexts[index + 1]
        rest == RemoveAt(b.contexts, index)
    IN  [b EXCEPT !.contexts = [rest EXCEPT ![index + 1].line_weight = @ + removed.line_weight - 1],
                  !.line_info = RemoveAt(@, index)]

last_instruction_fixed(b) == [b EXCEPT !.contexts[Len(b.contexts)].is_fixed = TRUE]
last_instruction_offset(b, final_offset) == [b EXCEPT !.contexts[Len(b.contexts)].final_offset = final_offset]
get_instruction(b, index) == b.contexts[index + 1].instruction
set_instruction(b, index, i) == [b EXCEPT !.contexts[index + 1].instruction = i]
get_program_counter(b) == Len(b.contexts)

\* The while loop of jump_destination.  The direction and the sign are read from
\* the running bx in every iteration, as the code does.
RECURSIVE JumpWalk(_, _, _, _, _)
JumpWalk(contexts, context_index, bx, steps, offset) ==
    IF steps = 0 THEN [ok |-> TRUE, bx |-> bx, read |-> offset]
    ELSE LET index == IF bx > 0 THEN context_index + offset ELSE context_index - offset
         IN  IF index < 0 \/ index >= Len(contexts)
                THEN [ok |-> FALSE, bx |-> bx, read |-> offset]
             ELSE LET context == contexts[index + 1]
                  IN  JumpWalk(contexts, context_index,
                               bx + context.line_weight * Signum(bx),
                               steps + context.line_weight - 1,
                               offset + 1)

\* InstructionBuilder::jump_destination; ok = FALSE is the index panic.
jump_destination(contexts, context_index, bx, final_offset) ==
    LET walk == IF bx > 0 THEN JumpWalk(contexts, context_index, bx, bx + 1, 1)
                ELSE JumpWalk(contexts, context_index, bx, Abs(bx), 0)
    IN  [ok |-> walk.ok, bx |-> walk.bx + final_offset]

\* InstructionBuilder::adjusted_jump_destination
adjusted_jump_destination(b, bx) ==
    IF bx > 0 THEN [outcome |-> "UnexpectedForwardJump", position |-> 0]
    ELSE IF get_program_counter(b) = 0 THEN [outcome |-> "Panic", position |-> 0]
    ELSE LET program_counter == get_program_counter(b)
             new_bx == jump_destination(b.contexts, program_counter - 1, bx, 0)
         IN  IF ~new_bx.ok THEN [outcome |-> "Panic", position |-> 0]
             ELSE [outcome |-> "Ok", position |-> program_counter + new_bx.bx]

IsJump(i) == i.op \in {"Jump", "ForLoop", "ForPrep"}

\* new_stack_size as u8
AsU8(n) == n % (ByteMax + 1)

\* The for loop of finalize from context_index on.
RECURSIVE FinalizeFrom(_, _, _, _, _)
FinalizeFrom(contexts, context_index, instructions, maxstacksize, stack_limit) ==
    IF context_index >= Len(contexts)
        THEN [outcome |-> "Ok", value |-> 0, instructions |-> instructions, maxstacksize |-> maxstacksize]
    ELSE LET context == contexts[context_index + 1]
             destination == stack_destination(context.instruction)
             new_stack_size == destination.end + 1
             too_large == destination.some /\ new_stack_size > stack_limit
             size == IF destination.some THEN Max(maxstacksize, AsU8(new_stack_size)) ELSE maxstacksize
             retarget == IsJump(context.instruction) /\ ~context.is_fixed
             new_bx == IF retarget
                        THEN jump_destination(contexts, context_index, context.instruction.mode.bx, context.final_offset)
                        ELSE [ok |-> TRUE, bx |-> 0]
             instruction == IF retarget
                             THEN [context.instruction EXCEPT !.mode.bx = new_bx.bx]
                             ELSE context.instruction
         IN  IF too_large
                THEN [outcome |-> "StackTooLarge", value |-> new_stack_size,
                      instructions |-> instructions, maxstacksize |-> maxstacksize]
             ELSE IF ~new_bx.ok
                THEN [outcome |-> "Panic", value |-> 0, instructions |-> instructions, maxstacksize |-> size]
             ELSE FinalizeFrom(contexts, context_index + 1, Append(instructions, instruction), size, stack_limit)

\* InstructionBuilder::finalize
finalize(b, maxstacksize, settings) ==
    LET r == FinalizeFrom(b.contexts, 0, <<>>, maxstacksize, settings.lua51.stack_limit)
    IN  [outcome |-> r.outcome, value |-> r.value, instructions |-> r.instructions,
         line_info |-> b.line_info, maxstacksize |-> r.maxstacksize]

(***************************************************************************)
(* The constant manager.                                                   *)
(***************************************************************************)
\* The trailing NUL of a Lua string constant, written as a visible escape.
NUL == "\\0"
ConstantNil == [type |-> "Nil", string |-> "", number |-> 0]
ConstantString(s) == [type |-> "String", string |-> s, number |-> 0]
ConstantNumber(n) == [type |-> "Number", string |-> "", number |-> n]

Contains(constants, constant) == \E i \in 1..Len(constants) : constants[i] = constant
\* Iterator::position: the 0-based index of the first equal constant.
Position(constants, constant) ==
    CHOOSE i \in 0..(Len(constants) - 1) :
        /\ constants[i + 1] = constant
        /\ \A j \in 0..(i - 1) : constants[j + 1] # constant

\* ConstantManager::allocate_new_constant
allocate_new_constant(constants, settings) ==
    LET constant_index == Len(constants)
    IN  IF constant_index <= get_maximum_constant_index(settings.output)
            THEN [outcome |-> "Ok", index |-> constant_index]
            ELSE [outcome |-> "TooManyConstants", index |-> constant_index]

UniqueName(program_counter, index) ==
    "__%lunify%__temp" \o ToString(program_counter) \o "_" \o ToString(index) \o NUL

\* The first candidate name, whether or not the pool holds it already.
UniqueLoopFirst(constants, program_counter, index) ==
    ConstantString(UniqueName(program_counter, index))

RECURSIVE UniqueLoop(_, _, _)
UniqueLoop(constants, program_counter, index) ==
    IF ~Contains(constants, ConstantString(UniqueName(program_counter, index)))
        THEN ConstantString(UniqueName(program_counter, index))
        ELSE UniqueLoop(constants, program_counter, index + 1)

\* A create_unique that puts the new constant in front of the pool.
create_unique_in_front(constants, program_counter, settings) ==
    LET unique_constant == allocate_new_constant(constants, settings)
    IN  IF unique_constant.outcome # "Ok"
            THEN [outcome |-> unique_constant.outcome, index |-> unique_constant.index,
                  constants |-> constants]
            ELSE [outcome |-> "Ok", index |-> 0,
                  constants |-> <<UniqueLoop(constants, program_counter, 0)>> \o constants]

\* ConstantManager::create_unique
create_unique(constants, program_counter, settings) ==
    LET unique_constant == allocate_new_constant(constants, settings)
    IN  IF unique_constant.outcome # "Ok"
            THEN [outcome |-> unique_constant.outcome, index |-> unique_constant.index, constants |-> constants]
            ELSE [outcome |-> "Ok", index |-> unique_constant.index,
                  constants |-> Append(constants, UniqueLoop(constants, program_counter, 0))]

\* A lookup that never looks: the constant is appended whether or not the pool
\* holds it.
AlwaysAppend(constants, constant, settings) ==
    LET new == allocate_new_constant(constants, settings)
    IN  IF new.outcome # "Ok"
            THEN [outcome |-> new.outcome, index |-> new.index, constants |-> constants]
            ELSE [outcome |-> "Ok", index |-> new.index, constants |-> Append(constants, constant)]

\* The shared body of constant_for_str and constant_nil.
LookupOrAppend(constants, constant, settings) ==
    IF Contains(constants, constant)
        THEN [outcome |-> "Ok", index |-> Position(constants, constant), constants |-> constants]
    ELSE LET new == allocate_new_constant(constants, settings)
         IN  IF new.outcome # "Ok"
                THEN [outcome |-> new.outcome, index |-> new.index, constants |-> constants]
                ELSE [outcome |-> "Ok", index |-> new.index, constants |-> Append(constants, constant)]

\* ConstantManager::constant_for_str
constant_for_str(constants, constant_str, settings) ==
    LookupOrAppend(constants, ConstantString(constant_str \o NUL), settings)

\* ConstantManager::constant_nil
constant_nil(constants, settings) == LookupOrAppend(constants, ConstantNil, settings)

(***************************************************************************)
(* upcast: one arm per Lua 5.0 instruction.  Every arm returns the outcome *)
(* ("Ok", an error of LunifyError, or "Panic"), the builder and the pool.  *)
(***************************************************************************)
Step(outcome, value, b, constants) ==
    [outcome |-> outcome, value |-> value, builder |-> b, constants |-> constants]

\* The Lua 5.0 variants that are re-tagged with the same a and mode.
OneToOne ==
    {"Move", "LoadK", "LoadBool", "LoadNil", "GetUpValue", "GetGlobal", "GetTable",
     "SetGlobal", "SetUpValue", "SetTable", "NewTable", "_Self", "Add", "Subtract",
     "Multiply", "Divide", "Power", "Unary", "Not", "Concatinate", "Jump", "Equals",
     "LessThan", "LessEquals", "Call", "TailCall", "Return", "Close", "Closure"}

UpcastOneToOne(b, constants, i) == Step("Ok", 0, builder_instruction(b, Instruction(i.op, i.a, i.mode)), constants)

UpcastTest(b, constants, i) ==
    Step("Ok", 0,
         builder_instruction(b, Instruction("TestSet", i.a,
                                            BC(ConstantRegister(i.mode.b.value, FALSE), i.mode.c))),
         constants)

UpcastForLoop(b, constants, i, settings) ==
    LET global_constant == create_unique(constants, get_program_counter(b), settings)
        b1 == builder_instruction(b, Instruction("SetGlobal", i.a + 3, Bx(global_constant.index)))
        b2 == last_instruction_offset(extra_instruction(b1, Instruction("ForLoop", i.a, i.mode)), 0 - 1)
        position == adjusted_jump_destination(b2, i.mode.bx)
    IN  IF global_constant.outcome # "Ok"
            THEN Step(global_constant.outcome, global_constant.index, b, constants)
        ELSE IF position.outcome # "Ok"
            THEN Step(position.outcome, 0, b2, global_constant.constants)
        ELSE IF insert_extra_instruction_panics(b2, position.position)
            THEN Step("Panic", 0, b2, global_constant.constants)
        ELSE Step("Ok", 0,
                  insert_extra_instruction(b2, position.position,
                                           Instruction("GetGlobal", i.a + 3, Bx(global_constant.index))),
                  global_constant.constants)

\* for offset in (0..variable_count).rev(): the moves of the call results.
RECURSIVE ResultMoves(_, _, _, _)
ResultMoves(b, a, call_base, count) ==
    IF count = 0 THEN b
    ELSE ResultMoves(extra_instruction(b, Instruction("Move", a + (count - 1) + 2,
                                                        BC(Register(call_base + (count - 1)), Unused))),
                     a, call_base, count - 1)

UpcastTForLoop(b, constants, i, settings) ==
    LET c == i.mode.c.value
        a == i.a
        variable_count == c + 1
        call_base == a + variable_count + 2
        nil == constant_nil(constants, settings)
        b1 == builder_instruction(b, Instruction("Move", call_base, BC(Register(a), Unused)))
        b2 == extra_instruction(b1, Instruction("Move", call_base + 1, BC(Register(a + 1), Unused)))
        b3 == extra_instruction(b2, Instruction("Move", call_base + 2, BC(Register(a + 2), Unused)))
        b4 == extra_instruction(b3, Instruction("Call", call_base, BC(Generic(3), Generic(variable_count + 1))))
        b5 == ResultMoves(b4, a, call_base, variable_count)
        b6 == extra_instruction(b5, Instruction("LoadK", call_base, Bx(nil.index)))
        b7 == extra_instruction(b6, Instruction("Equals", 0,
                                                BC(ConstantRegister(a + 2, FALSE), ConstantRegister(call_base, FALSE))))
    IN  IF c = 0
            THEN Step("Ok", 0, builder_instruction(b, Instruction("TForLoop", a, BC(Unused, Generic(c + 1)))), constants)
        ELSE IF nil.outcome # "Ok"
            THEN Step(nil.outcome, nil.index, b, constants)
        ELSE Step("Ok", 0, b7, nil.constants)

UpcastTForPrep(b, constants, i, settings) ==
    LET a == i.a
        ra1 == create_unique(constants, get_program_counter(b), settings)
        ra2 == create_unique(ra1.constants, get_program_counter(b) + 1, settings)
        type_global == constant_for_str(ra2.constants, "type", settings)
        table_global == constant_for_str(type_global.constants, "table", settings)
        next_global == constant_for_str(table_global.constants, "next", settings)
        failed == SelectSeq(<<ra1, ra2, type_global, table_global, next_global>>,
                            LAMBDA r : r.outcome # "Ok")
        b1 == builder_instruction(b, Instruction("SetGlobal", a + 1, Bx(ra1.index)))
        b2 == extra_instruction(b1, Instruction("SetGlobal", a + 2, Bx(ra2.index)))
        b3 == extra_instruction(b2, Instruction("GetGlobal", a + 1, Bx(type_global.index)))
        b4 == extra_instruction(b3, Instruction("Move", a + 2, BC(Register(a), Unused)))
        b5 == extra_instruction(b4, Instruction("Call", a + 1, BC(Generic(2), Generic(2))))
        b6 == extra_instruction(b5, Instruction("LoadK", a + 2, Bx(table_global.index)))
        b7 == extra_instruction(b6, Instruction("Equals", 0,
                                                BC(ConstantRegister(a + 1, FALSE), ConstantRegister(a + 2, FALSE))))
        b8 == last_instruction_fixed(extra_instruction(b7, Instruction("Jump", a, SignedBx(2))))
        b9 == extra_instruction(b8, Instruction("SetGlobal", a, Bx(ra1.index)))
        b10 == extra_instruction(b9, Instruction("GetGlobal", a, Bx(next_global.index)))
        b11 == extra_instruction(b10, Instruction("GetGlobal", a + 1, Bx(ra1.index)))
        b12 == extra_instruction(b11, Instruction("GetGlobal", a + 2, Bx(ra2.index)))
        b13 == extra_instruction(b12, Instruction("Jump", a, i.mode))
    IN  IF failed # <<>>
            THEN Step(failed[1].outcome, failed[1].index, b, constants)
        ELSE Step("Ok", 0, b13, next_global.constants)

\* for instruction_index in (0..(pc - 1)).rev(): the first index, going back from
\* instruction_index, whose destination starts at a; index 0 always matches.
RECURSIVE FindSetup(_, _, _)
FindSetup(b, a, instruction_index) ==
    LET destination == stack_destination(get_instruction(b, instruction_index))
    IN  IF (destination.some /\ destination.start = a) \/ instruction_index = 0
            THEN instruction_index
            ELSE FindSetup(b, a, instruction_index - 1)

\* while instruction_index < builder.get_program_counter(): the repaging walk.
RECURSIVE Repage(_, _, _, _, _, _)
Repage(b, instruction_index, offset, page, a, fields_per_flush) ==
    IF instruction_index >= get_program_counter(b) THEN b
    ELSE LET instruction == get_instruction(b, instruction_index)
             destination == stack_destination(instruction)
         IN  IF destination.some /\ offset + destination.start - 1 = a + fields_per_flush
                THEN Repage(insert_extra_instruction(b, instruction_index,
                                Instruction("SetList", a, BC(Generic(fields_per_flush), Generic(page)))),
                            instruction_index + 1, offset - fields_per_flush, page + 1, a, fields_per_flush)
                ELSE Repage(set_instruction(b, instruction_index, move_stack_accesses(instruction, a, offset)),
                            instruction_index + 1, offset, page, a, fields_per_flush)

\* The search for the table setup and the repaging that follows it (shared by
\* upcast and convert).  The builder is not empty.
RepageSetup(b, a, fields_per_flush) ==
    IF get_program_counter(b) < 2 THEN b
    ELSE LET instruction_index == FindSetup(b, a, get_program_counter(b) - 2)
             instruction == get_instruction(b, instruction_index)
         IN  IF instruction.op = "SetList"
                THEN Repage(remove_instruction(b, instruction_index), instruction_index,
                            instruction.mode.b.value, instruction.mode.c.value, a, fields_per_flush)
                ELSE b

UpcastSetList(b, constants, i, settings) ==
    LET a == i.a
        flat_index == i.mode.bx + 1
        page == flat_index \div settings.output.fields_per_flush
        offset == flat_index % settings.output.fields_per_flush
        bb == IF i.op = "SetListO" THEN 0 ELSE offset
    IN  IF page = 0 /\ flat_index <= Min(settings.lua50.fields_per_flush, settings.output.fields_per_flush)
            THEN Step("Ok", 0, builder_instruction(b, Instruction("SetList", a, BC(Generic(bb), Generic(1)))), constants)
        ELSE IF get_program_counter(b) = 0
            THEN Step("Panic", 0, b, constants)
        ELSE Step("Ok", 0,
                  builder_instruction(RepageSetup(b, a, settings.output.fields_per_flush),
                                      Instruction("SetList", a, BC(Generic(bb), Generic(page + 1)))),
                  constants)

\* The match of the upcast loop.
UpcastInstruction(b, constants, i, settings) ==
    CASE i.op = "Test" -> UpcastTest(b, constants, i)
      [] i.op = "ForLoop" -> UpcastForLoop(b, constants, i, settings)
      [] i.op = "TForLoop" -> UpcastTForLoop(b, constants, i, settings)
      [] i.op = "TForPrep" -> UpcastTForPrep(b, constants, i, settings)
      [] i.op \in {"SetList", "SetListO"} -> UpcastSetList(b, constants, i, settings)
      [] OTHER -> UpcastOneToOne(b, constants, i)

\* convert: the SetList arm.  c = 0 makes c.0 - 1 overflow, which aborts.
ConvertSetList(b, i, settings) ==
    LET a == i.a
        flat_index == i.mode.b.value + settings.lua51.fields_per_flush * (i.mode.c.value - 1)
        page == flat_index \div settings.output.fields_per_flush
        offset == flat_index % settings.output.fields_per_flush
        bb == IF i.mode.b.value = 0 THEN 0 ELSE offset
    IN  IF i.mode.c.value = 0
            THEN Step("Panic", 0, b, <<>>)
        ELSE IF page = 0 /\ flat_index <= Min(settings.lua51.fields_per_flush, settings.output.fields_per_flush)
            THEN Step("Ok", 0, builder_instruction(b, Instruction("SetList", a, BC(Generic(bb), Generic(1)))), <<>>)
        ELSE IF get_program_counter(b) = 0
            THEN Step("Panic", 0, b, <<>>)
        ELSE Step("Ok", 0,
                  builder_instruction(RepageSetup(b, a, settings.output.fields_per_flush),
                                      Instruction("SetList", a, BC(Generic(bb), Generic(page + 1)))),
                  <<>>)

\* The match of the convert loop.
ConvertInstruction(b, i, settings) ==
    IF i.op = "SetList" THEN ConvertSetList(b, i, settings)
    ELSE Step("Ok", 0, builder_instruction(b, i), <<>>)

\* if is_variadic { ... }: the four inserted instructions.
VariadicPrologue(b, parameter_count) ==
    LET arg_stack_position == parameter_count
        b0 == [b EXCEPT !.current = 0 - 1]
        b1 == insert_extra_instruction(b0, 0, Instruction("NewTable", arg_stack_position + 1, BC(Unused, Unused)))
        b2 == insert_extra_instruction(b1, 1, Instruction("VarArg", arg_stack_position + 2, BC(Generic(0), Unused)))
        b3 == insert_extra_instruction(b2, 2, Instruction("SetList", arg_stack_position + 1, BC(Generic(0), Generic(1))))
    IN  insert_extra_instruction(b3, 3, Instruction("Move", arg_stack_position, BC(Register(arg_stack_position + 1), Unused)))

(***************************************************************************)
(* The header of a chunk.  The header is modelled byte by byte; the root   *)
(* prototype that follows it is kept decoded.                              *)
(***************************************************************************)
Ok(value) == [outcome |-> "Ok", value |-> value]
Err(outcome, value) == [outcome |-> outcome, value |-> value]

\* LuaVersion: TryFrom<u8> and From<LuaVersion> for u8
LuaVersion_into(v) == IF v = "Lua51" THEN 81 ELSE 80
LuaVersion_try_from(byte) ==
    CASE byte = 81 -> "Lua51"
      [] byte = 80 -> "Lua50"
      [] OTHER -> "UnsupportedVersion"

\* Endianness: TryFrom<u8> and From<Endianness> for u8
Endianness_into(e) == IF e = "Big" THEN 0 ELSE 1
Endianness_try_from(byte) ==
    CASE byte = 0 -> "Big"
      [] byte = 1 -> "Little"
      [] OTHER -> "InvaildEndianness"

\* BitWidth: TryFrom<u8> and From<BitWidth> for u8
BitWidth_into(w) == IF w = "Bit32" THEN 4 ELSE 8
BitWidth_try_from(byte) ==
    CASE byte = 4 -> "Bit32"
      [] byte = 8 -> "Bit64"
      [] OTHER -> "Unsupported"

Format(format, endianness, integer_width, size_t_width, instruction_width, number_width, is_number_integral) ==
    [format |-> format, endianness |-> endianness, integer_width |-> integer_width,
     size_t_width |-> size_t_width, instruction_width |-> instruction_width,
     number_width |-> number_width, is_number_integral |-> is_number_integral]

\* ByteStream::remove_signature: consume exactly the given prefix or fail.
remove_signature(data, signature) ==
    Len(data) >= Len(signature) /\ SubSeq(data, 1, Len(signature)) = signature

\* ByteStream::byte at a 0-based offset
byte(data, offset) ==
    IF offset < Len(data) THEN Ok(<<data[offset + 1]>>) ELSE Err("InputTooShort", <<>>)

\* ByteStream::slice at a 0-based offset
slice(data, offset, length) ==
    IF offset + length > Len(data) THEN Err("InputTooShort", <<>>)
    ELSE Ok(SubSeq(data, offset + 1, offset + length))

\* u8::try_into for the type the header byte is read as.
try_into(target, value) ==
    CASE target = "LuaVersion" -> LuaVersion_try_from(value)
      [] target = "Endianness" -> Endianness_try_from(value)
      [] target = "BitWidth" -> BitWidth_try_from(value)

\* A stream that always claims to be used up.
is_empty_always(rest) == TRUE

\* ByteStream::is_empty, for what is left of the data behind the offset.
is_empty(rest) == Len(rest) = 0

\* byte()?.try_into().map_err(error): the converted byte or the first error.
Converted(read, target, error) ==
    IF read.outcome # "Ok" THEN read
    ELSE IF try_into(target, read.value[1]) \in {"UnsupportedVersion", "InvaildEndianness", "Unsupported"}
        THEN Err(error, read.value)
    ELSE Ok(read.value)

Reverse(bytes) == [k \in 1..Len(bytes) |-> bytes[Len(bytes) + 1 - k]]

\* 31415926.535897933 as the bytes of a little endian f64
TestNumber == <<182, 9, 147, 104, 231, 245, 125, 65>>

\* from_slice!(.., f32, f64) != 31415926.535897933: no f32 widens to the test
\* number, so a 4 byte number never equals it.
IsTestNumber(bytes, endianness) ==
    /\ Len(bytes) = 8
    /\ (IF endianness = "Little" THEN bytes ELSE Reverse(bytes)) = TestNumber

\* A parser that reports the last check that fails instead of the first.
LastFailure(checks) ==
    LET failed == SelectSeq(checks, LAMBDA check : check.outcome # "Ok")
    IN  IF failed = <<>> THEN Ok(<<>>) ELSE failed[Len(failed)]

\* The ? operator: the first error in reading order is the one returned.
FirstFailure(checks) ==
    LET failed == SelectSeq(checks, LAMBDA check : check.outcome # "Ok")
    IN  IF failed = <<>> THEN Ok(<<>>) ELSE failed[1]

\* Format::from_byte_stream, reading from the 0-based offset start.
Format_from_byte_stream(data, start, version) ==
    LET first == IF version = "Lua51" THEN start + 1 ELSE start
        format == IF version = "Lua51" THEN byte(data, start) ELSE Ok(<<0>>)
        endianness == Converted(byte(data, first), "Endianness", "InvaildEndianness")
        integer_width == Converted(byte(data, first + 1), "BitWidth", "UnsupportedIntegerWidth")
        size_t_width == Converted(byte(data, first + 2), "BitWidth", "UnsupportedSizeTWidth")
        instruction_width == Converted(byte(data, first + 3), "BitWidth", "UnsupportedInstructionWidth")
        instruction_format ==
            IF version = "Lua51" THEN Ok(<<>>)
            ELSE LET read == slice(data, first + 4, 4)
                 IN  IF read.outcome = "Ok" /\ read.value # <<6, 8, 9, 9>>
                        THEN Err("UnsupportedInstructionFormat", read.value)
                        ELSE read
        after == IF version = "Lua51" THEN first + 4 ELSE first + 8
        number_width == Converted(byte(data, after), "BitWidth", "UnsupportedNumberWidth")
        integral ==
            IF version = "Lua51" THEN byte(data, after + 1)
            ELSE IF number_width.outcome # "Ok" THEN number_width
            ELSE slice(data, after + 1, number_width.value[1])
        failure == FirstFailure(<<format, endianness, integer_width, size_t_width, instruction_width,
                                  instruction_format, number_width, integral>>)
        is_number_integral ==
            IF version = "Lua51" THEN integral.value[1] = 1
            ELSE ~IsTestNumber(integral.value, Endianness_try_from(endianness.value[1]))
    IN  IF failure.outcome # "Ok"
            THEN [outcome |-> failure.outcome, value |-> failure.value, format |-> <<>>, offset |-> start]
        ELSE [outcome |-> "Ok", value |-> <<>>,
              format |-> <<Format(format.value[1],
                                  Endianness_try_from(endianness.value[1]),
                                  BitWidth_try_from(integer_width.value[1]),
                                  BitWidth_try_from(size_t_width.value[1]),
                                  BitWidth_try_from(instruction_width.value[1]),
                                  BitWidth_try_from(number_width.value[1]),
                                  is_number_integral)>>,
              offset |-> IF version = "Lua51" THEN after + 2 ELSE after + 1 + number_width.value[1]]

\* Format::write
Format_write(f) ==
    <<f.format, Endianness_into(f.endianness), BitWidth_into(f.integer_width),
      BitWidth_into(f.size_t_width), BitWidth_into(f.instruction_width),
      BitWidth_into(f.number_width), IF f.is_number_integral THEN 1 ELSE 0>>

\* A unify without the early return: the comparison of the formats never succeeds.
pass_through_never(input_format, format, test) == FALSE

\* input_format == *output_format && !cfg!(test)
pass_through(input_format, format, test) == input_format = format /\ ~test

\* unify up to the pass-through test: the signature, the version and the format.
UnifyHeader(data, s) ==
    LET signature == IF remove_signature(data, s.lua50.binary_signature)
                        THEN <<s.lua50.binary_signature>>
                     ELSE IF remove_signature(data, s.lua51.binary_signature)
                        THEN <<s.lua51.binary_signature>>
                     ELSE <<>>
        offset == Len(signature[1])
        read == Converted(byte(data, offset), "LuaVersion", "UnsupportedVersion")
        lua_version == LuaVersion_try_from(read.value[1])
        input_format == Format_from_byte_stream(data, offset + 1, lua_version)
    IN  IF signature = <<>>
            THEN [outcome |-> "IncorrectSignature", value |-> <<>>, version |-> "None", format |-> <<>>, offset |-> 0]
        ELSE IF read.outcome # "Ok"
            THEN [outcome |-> read.outcome, value |-> read.value, version |-> "None", format |-> <<>>, offset |-> offset]
        ELSE [outcome |-> input_format.outcome, value |-> input_format.value, version |-> lua_version,
              format |-> input_format.format, offset |-> input_format.offset]

(***************************************************************************)
(* The state: one chunk on its way through unify, and its root prototype   *)
(* on its way through from_byte_stream.                                    *)
(***************************************************************************)
VARIABLES
    input_bytes,         \* the chunk passed to unify: its header and what follows the root
    output_format,       \* the Format passed to unify
    cfg_test,            \* cfg!(test): whether this is the test build
    unified,             \* what unify returned
    version,             \* the LuaVersion read from the header
    function,            \* the fields of the root prototype as they are in the input
    settings,            \* the Settings passed to unify
    builder,             \* the InstructionBuilder of upcast and convert
    constants,           \* the constant pool upcast appends to
    maximum_stack_size,  \* the u8 finalize raises
    is_variadic,         \* the byte from_byte_stream rewrites
    index,               \* the number of loop iterations done
    pc,                  \* "start", "parsed", "upcast", "convert", "done" or "returned"
    result,              \* what upcast or convert returned
    calls,               \* the calls made on a ConstantManager used on its own
    specification,       \* the four entries handed to InstructionLayout::from_specification
    instruction_layout,  \* what from_specification returned
    overflow_checks,     \* whether the build panics on an overflowing shift
    exercise             \* the last operand or writer call made on its own, and what it gave

vars == <<input_bytes, output_format, cfg_test, unified, version, function, settings, builder,
          constants, maximum_stack_size, is_variadic, index, pc, result, calls,
          specification, instruction_layout, overflow_checks, exercise>>

\* The state of the parts that are exercised on their own; unify leaves it alone.
NoLayout == [outcome |-> "None"]
NoExercise == [op |-> "None"]
pieces == <<specification, instruction_layout, overflow_checks, exercise>>
Pieces ==
    /\ specification = <<>>
    /\ instruction_layout = NoLayout
    /\ overflow_checks = FALSE
    /\ exercise = NoExercise
apart == <<calls, pieces>>
Apart == calls = <<>> /\ Pieces

\* What unify was called with.
call == <<input_bytes, output_format, cfg_test, function, settings>>

NoResult == [outcome |-> "None", value |-> 0, instructions |-> <<>>, line_info |-> <<>>]
NoUnified == [outcome |-> "None", value |-> <<>>, header |-> <<>>, root |-> <<>>, trailing |-> <<>>]

\* Format::default() on a 64 bit little endian target
DefaultFormat == Format(0, "Little", "Bit32", "Bit64", "Bit32", "Bit64", FALSE)

\* instructions.into_iter().zip(line_info) stops at the shorter of the two.
ZipLen == Min(Len(function.instructions), Len(function.line_info))

\* is_variadic |= 2
BitOr2(flags) == IF (flags \div 2) % 2 = 1 THEN flags ELSE flags + 2

\* The state in which unify is called with the chunk header \o f \o trailing.
Called(header, f, trailing, format, test, s) ==
    /\ input_bytes = [header |-> header, trailing |-> trailing]
    /\ output_format = format
    /\ cfg_test = test
    /\ unified = NoUnified
    /\ version = "None"
    /\ function = f
    /\ settings = s
    /\ builder = EmptyBuilder
    /\ constants = f.constants
    /\ maximum_stack_size = f.maximum_stack_size
    /\ is_variadic = f.is_variadic
    /\ index = 0
    /\ pc = "start"
    /\ result = NoResult
    /\ Apart

\* The state in which from_byte_stream has read the fields of a function of
\* version v.
Parsed(v, f, s) ==
    /\ input_bytes = [header |-> <<>>, trailing |-> <<>>]
    /\ output_format = DefaultFormat
    /\ cfg_test = FALSE
    /\ unified = NoUnified
    /\ version = v
    /\ function = f
    /\ settings = s
    /\ builder = EmptyBuilder
    /\ constants = f.constants
    /\ maximum_stack_size = f.maximum_stack_size
    /\ is_variadic = f.is_variadic
    /\ index = 0
    /\ pc = "parsed"
    /\ result = NoResult
    /\ Apart

\* unify up to the call of Function::from_byte_stream.
UnifyBegin ==
    /\ pc = "start"
    /\ LET header == UnifyHeader(input_bytes.header, settings)
       IN  IF header.outcome # "Ok"
            THEN /\ unified' = [NoUnified EXCEPT !.outcome = header.outcome, !.value = header.value]
                 /\ pc' = "returned"
                 /\ UNCHANGED version
           ELSE IF pass_through(header.format[1], output_format, cfg_test)
            THEN /\ unified' = [outcome |-> "Ok", value |-> <<>>, header |-> input_bytes.header,
                                root |-> <<function>>, trailing |-> input_bytes.trailing]
                 /\ pc' = "returned"
                 /\ version' = header.version
           ELSE /\ version' = header.version
                /\ pc' = "parsed"
                /\ UNCHANGED unified
    /\ UNCHANGED <<call, apart, builder, constants, maximum_stack_size, is_variadic, index, result>>

\* from_byte_stream, Lua 5.0 branch, up to the call of upcast.
UpcastBegin ==
    /\ pc = "parsed"
    /\ version = "Lua50"
    /\ is_variadic' = IF is_variadic # 0 THEN BitOr2(is_variadic) ELSE is_variadic
    /\ builder' = EmptyBuilder
    /\ pc' = "upcast"
    /\ UNCHANGED <<call, apart, unified, version, constants, maximum_stack_size, index, result>>

\* One iteration of the loop of upcast.
UpcastStep ==
    /\ pc = "upcast"
    /\ index < ZipLen
    /\ LET b == set_line_number(builder, function.line_info[index + 1], index)
           step == UpcastInstruction(b, constants, function.instructions[index + 1], settings)
       IN  IF step.outcome = "Ok"
            THEN /\ builder' = step.builder
                 /\ constants' = step.constants
                 /\ index' = index + 1
                 /\ UNCHANGED <<pc, result>>
            ELSE /\ builder' = step.builder
                 /\ constants' = step.constants
                 /\ pc' = "done"
                 /\ result' = [NoResult EXCEPT !.outcome = step.outcome, !.value = step.value]
                 /\ UNCHANGED index
    /\ UNCHANGED <<call, apart, unified, version, maximum_stack_size, is_variadic>>

\* The end of upcast: the variadic prologue and finalize.
UpcastFinish ==
    /\ pc = "upcast"
    /\ index = ZipLen
    /\ pc' = "done"
    /\ IF is_variadic # 0 /\ Len(builder.contexts) = 0
        THEN /\ result' = [NoResult EXCEPT !.outcome = "Panic"]
             /\ UNCHANGED <<builder, maximum_stack_size>>
        ELSE LET b == IF is_variadic # 0
                        THEN VariadicPrologue(builder, function.parameter_count)
                        ELSE builder
                 r == finalize(b, maximum_stack_size, settings)
             IN  /\ builder' = b
                 /\ maximum_stack_size' = r.maxstacksize
                 /\ result' = [outcome |-> r.outcome, value |-> r.value,
                               instructions |-> IF r.outcome = "Ok" THEN r.instructions ELSE <<>>,
                               line_info |-> IF r.outcome = "Ok" THEN r.line_info ELSE <<>>]
    /\ UNCHANGED <<call, apart, unified, version, constants, is_variadic, index>>

\* from_byte_stream, Lua 5.1 branch: the call of convert and its early return.
ConvertBegin ==
    /\ pc = "parsed"
    /\ version = "Lua51"
    /\ builder' = EmptyBuilder
    /\ IF settings.lua51.fields_per_flush = settings.output.fields_per_flush
        THEN /\ result' = [outcome |-> "Ok", value |-> 0, instructions |-> function.instructions,
                           line_info |-> function.line_info]
             /\ pc' = "done"
        ELSE /\ pc' = "convert"
             /\ UNCHANGED result
    /\ UNCHANGED <<call, apart, unified, version, constants, maximum_stack_size, is_variadic, index>>

\* One iteration of the loop of convert.
ConvertStep ==
    /\ pc = "convert"
    /\ index < ZipLen
    /\ LET b == set_line_number(builder, function.line_info[index + 1], index)
           step == ConvertInstruction(b, function.instructions[index + 1], settings)
       IN  IF step.outcome = "Ok"
            THEN /\ builder' = step.builder
                 /\ index' = index + 1
                 /\ UNCHANGED <<pc, result>>
            ELSE /\ builder' = step.builder
                 /\ pc' = "done"
                 /\ result' = [NoResult EXCEPT !.outcome = step.outcome, !.value = step.value]
                 /\ UNCHANGED index
    /\ UNCHANGED <<call, apart, unified, version, constants, maximum_stack_size, is_variadic>>

\* The end of convert: finalize.
ConvertFinish ==
    /\ pc = "convert"
    /\ index = ZipLen
    /\ pc' = "done"
    /\ LET r == finalize(builder, maximum_stack_size, settings)
       IN  /\ maximum_stack_size' = r.maxstacksize
           /\ result' = [outcome |-> r.outcome, value |-> r.value,
                         instructions |-> IF r.outcome = "Ok" THEN r.instructions ELSE <<>>,
                         line_info |-> IF r.outcome = "Ok" THEN r.line_info ELSE <<>>]
    /\ UNCHANGED <<call, apart, unified, version, builder, constants, is_variadic, index>>

\* The prototype from_byte_stream returns.
RootFunction ==
    [instructions |-> result.instructions, line_info |-> result.line_info, constants |-> constants,
     maximum_stack_size |-> maximum_stack_size, parameter_count |-> function.parameter_count,
     is_variadic |-> is_variadic]

\* unify after Function::from_byte_stream: the InputTooLong test and the writer.
UnifyEnd ==
    /\ pc = "done"
    /\ pc' = "returned"
    /\ unified' =
        IF result.outcome # "Ok"
            THEN [NoUnified EXCEPT !.outcome = result.outcome, !.value = <<result.value>>]
        ELSE IF ~is_empty(input_bytes.trailing)
            THEN [NoUnified EXCEPT !.outcome = "InputTooLong"]
        ELSE [outcome |-> "Ok", value |-> <<>>,
              header |-> settings.output.binary_signature \o <<LuaVersion_into("Lua51")>>
                            \o Format_write(output_format),
              root |-> <<RootFunction>>, trailing |-> <<>>]
    /\ UNCHANGED <<call, apart, version, builder, constants, maximum_stack_size, is_variadic, index, result>>

NextUpcast == UpcastBegin \/ UpcastStep \/ UpcastFinish
NextFunction == NextUpcast \/ ConvertBegin \/ ConvertStep \/ ConvertFinish
NextConvert == ConvertBegin \/ ConvertStep \/ ConvertFinish
NextUnify == UnifyBegin \/ NextFunction \/ UnifyEnd

(***************************************************************************)
(* Inputs.                                                                 *)
(***************************************************************************)
\* The constant pool of the generated functions: the constant that their LOADKs load.
Pool == <<ConstantNumber(0)>>

Function(instructions, line_info, pool, stack, parameter_count, variadic) ==
    [instructions |-> instructions, line_info |-> line_info, constants |-> pool,
     maximum_stack_size |-> stack, parameter_count |-> parameter_count, is_variadic |-> variadic]

Settings(in50, in51, out) ==
    [lua50 |-> VersionSettings(StackLimit, in50, LuaSignature),
     lua51 |-> VersionSettings(StackLimit, in51, LuaSignature),
     output |-> VersionSettings(StackLimit, out, LuaSignature)]

\* The offsets with which instruction i of n instructions jumps to an instruction.
JumpOffsets(n, i) == {t - (i + 1) : t \in 0..(n - 1)}

\* The Lua 5.0 instructions tried at position i of a list of n.
Alphabet(n, i) ==
    {Instruction("LoadK", r, Bx(0)) : r \in 1..2}
    \cup {Instruction("Jump", 0, SignedBx(d)) : d \in JumpOffsets(n, i)}
    \cup {Instruction("ForLoop", 0, SignedBx(d)) : d \in JumpOffsets(n, i)}
    \cup {Instruction("TForPrep", 0, SignedBx(d)) : d \in JumpOffsets(n, i)}
    \cup {Instruction("TForLoop", 0, BC(Unused, Generic(c))) : c \in 0..1}
    \cup {Instruction("SetList", 0, Bx(e)) : e \in 0..2}

RECURSIVE Programs(_, _)
Programs(n, i) ==
    IF i = n THEN {<<>>}
    ELSE {<<x>> \o rest : x \in Alphabet(n, i), rest \in Programs(n, i + 1)}

\* line_info as the compiler writes it: one line per instruction.
Lines(n) == [k \in 1..n |-> k]

Init ==
    \E n \in 1..MaxLen : \E program \in Programs(n, 0) :
        Parsed("Lua50", Function(program, Lines(n), Pool, 2, 0, 0), Settings(1, 2, 2))

Spec == Init /\ [][NextUpcast]_vars

(***************************************************************************)
(* Table constructors: the instruction lists of the set list tests.        *)
(***************************************************************************)
\* for index in 0..size of lua50_setlist
RECURSIVE Lua50Elements(_, _, _)
Lua50Elements(element, size, s) ==
    IF element = size THEN <<>>
    ELSE LET stack_position == (element % s.lua50.fields_per_flush) + 1
             flush == IF stack_position = s.lua50.fields_per_flush \/ element + 1 = size
                        THEN <<Instruction("SetList", 0, Bx(element))>>
                        ELSE <<>>
         IN  <<Instruction("LoadK", stack_position, Bx(0))>> \o flush \o Lua50Elements(element + 1, size, s)

\* What Lua 5.0 emits for a table constructor of size elements.
lua50_setlist(size, s) ==
    <<Instruction("NewTable", 0, BC(Unused, Unused))>> \o Lua50Elements(0, size, s)

\* for index in 0..size of output_setlist
RECURSIVE OutputElements(_, _, _)
OutputElements(element, size, s) ==
    IF element = size THEN <<>>
    ELSE LET stack_position == (element % s.output.fields_per_flush) + 1
             page == (element \div s.output.fields_per_flush) + 1
             flush == IF stack_position = s.output.fields_per_flush \/ element + 1 = size
                        THEN <<Instruction("SetList", 0, BC(Generic(stack_position), Generic(page)))>>
                        ELSE <<>>
         IN  <<Instruction("LoadK", stack_position, Bx(0))>> \o flush \o OutputElements(element + 1, size, s)

\* What Lua 5.1 emits for the same table constructor.
output_setlist(size, s) ==
    <<Instruction("NewTable", 0, BC(Unused, Unused))>> \o OutputElements(0, size, s)

\* vec![0; instruction_count]
NoLines(n) == [k \in 1..n |-> 0]

\* set_list_test for every count and every pair of fields_per_flush values.
InitSetList ==
    \E size \in 1..MaxElements : \E in50 \in 1..MaxFlush : \E out \in 1..MaxFlush :
        LET s == Settings(in50, 2, out)
            program == lua50_setlist(size, s)
        IN  Parsed("Lua50", Function(program, NoLines(Len(program)), Pool, 2, 0, 0), s)

SpecSetList == InitSetList /\ [][NextUpcast]_vars

\* for index in 0..size of lua51_setlist
RECURSIVE Lua51Elements(_, _, _)
Lua51Elements(element, size, s) ==
    IF element = size THEN <<>>
    ELSE LET stack_position == (element % s.lua51.fields_per_flush) + 1
             page == (element \div s.lua51.fields_per_flush) + 1
             flush == IF stack_position = s.lua51.fields_per_flush \/ element + 1 = size
                        THEN <<Instruction("SetList", 0, BC(Generic(stack_position), Generic(page)))>>
                        ELSE <<>>
         IN  <<Instruction("LoadK", stack_position, Bx(0))>> \o flush \o Lua51Elements(element + 1, size, s)

\* What the Lua 5.1 input emits for a table constructor of size elements.
lua51_setlist(size, s) ==
    <<Instruction("NewTable", 0, BC(Unused, Unused))>> \o Lua51Elements(0, size, s)

\* set_list_test of convert for every count and every pair of differing
\* fields_per_flush values.
InitConvertSetList ==
    \E size \in 1..MaxElements : \E in51 \in 1..MaxFlush : \E out \in (1..MaxFlush) \ {in51} :
        LET s == Settings(1, in51, out)
            program == lua51_setlist(size, s)
        IN  Parsed("Lua51", Function(program, NoLines(Len(program)), Pool, 2, 0, 0), s)

SpecConvertSetList == InitConvertSetList /\ [][NextConvert]_vars

(***************************************************************************)
(* Functions made of the instructions that upcast re-tags one for one,     *)
(* with their line_info or stripped of it.                                 *)
(***************************************************************************)
OneToOneAlphabet(n, i) ==
    {Instruction("Move", 1, BC(Register(0), Unused)),
     Instruction("LoadK", 1, Bx(0)),
     Instruction("Test", 1, BC(Register(0), Generic(0))),
     Instruction("Equals", 0, BC(ConstantRegister(0, FALSE), ConstantRegister(0, TRUE))),
     Instruction("Return", 0, BC(Generic(1), Unused))}
    \cup {Instruction("Jump", 0, SignedBx(d)) : d \in JumpOffsets(n, i)}

RECURSIVE OneToOnePrograms(_, _)
OneToOnePrograms(n, i) ==
    IF i = n THEN {<<>>}
    ELSE {<<x>> \o rest : x \in OneToOneAlphabet(n, i), rest \in OneToOnePrograms(n, i + 1)}

InitOneToOne ==
    \E n \in 1..MaxLen : \E program \in OneToOnePrograms(n, 0) : \E lines \in {0, n} :
        Parsed("Lua50", Function(program, Lines(lines), Pool, 2, 0, 0), Settings(1, 2, 2))

SpecOneToOne == InitOneToOne /\ [][NextUpcast]_vars

\* The table constructors of both inputs, upcast or converted.
InitPages == InitSetList \/ InitConvertSetList
SpecPages == InitPages /\ [][NextFunction]_vars

\* The generated Lua 5.0 programs and the table constructors of both versions:
\* every arm of upcast and of convert.
InitRewrite == Init \/ InitPages
SpecRewrite == InitRewrite /\ [][NextFunction]_vars

(***************************************************************************)
(* Functions whose header fields vary: the stack size byte, the variadic   *)
(* byte, the parameter count, the number of line_info entries (0 for a     *)
(* stripped chunk) and the stack limits of the settings.                   *)
(***************************************************************************)
\* Settings whose Lua 5.1 input fields_per_flush and whose Lua 5.1 input and
\* output stack limits are set separately.
SettingsLimits(in51, limit51, limit_out) ==
    [Settings(1, in51, 2) EXCEPT !.lua51.stack_limit = limit51, !.output.stack_limit = limit_out]

\* The instructions tried at position i of a list of n: loads into low slots
\* and into the slots around the stack limit, jumps and loops.
FieldAlphabet(n, i) ==
    {Instruction("LoadK", r, Bx(0)) : r \in {1, StackLimit - 1, StackLimit, StackLimit + 1}}
    \cup {Instruction("Jump", 0, SignedBx(d)) : d \in JumpOffsets(n, i)}
    \cup {Instruction("ForLoop", 0, SignedBx(d)) : d \in JumpOffsets(n, i)}

RECURSIVE FieldPrograms(_, _)
FieldPrograms(n, i) ==
    IF i = n THEN {<<>>}
    ELSE {<<x>> \o rest : x \in FieldAlphabet(n, i), rest \in FieldPrograms(n, i + 1)}

\* The versions and the Lua 5.1 input fields_per_flush values tried with them.
FieldVersions == {<<"Lua50", 2>>, <<"Lua51", 2>>, <<"Lua51", 3>>}

InitFunction ==
    \E n \in 1..MaxBody : \E program \in FieldPrograms(n, 0) : \E lines \in 0..n :
    \E stack \in {2, ByteMax} : \E parameter_count \in 0..1 : \E variadic \in {0, 1, 4} :
    \E limit_out \in {StackLimit - 1, StackLimit} : \E v \in FieldVersions :
        Parsed(v[1], Function(program, Lines(lines), Pool, stack, parameter_count, variadic),
               SettingsLimits(v[2], StackLimit, limit_out))

SpecFunction == InitFunction /\ [][NextFunction]_vars

(***************************************************************************)
(* Chunks: headers of both versions, well formed and not, in front of a    *)
(* short root prototype.                                                   *)
(***************************************************************************)
\* "\x1bLul", the second signature of the tests of lib.rs
OtherSignature == <<27, 76, 117, 108>>
\* Four bytes that are no signature of any settings tried.
NoSignature == <<0, 76, 117, 97>>

\* The version byte and the format bytes of a Lua 5.1 header.
Header51(format, endianness, size_t_width, integral) ==
    <<81, format, endianness, 4, size_t_width, 4, 8, integral>>

\* The version byte and the format bytes of a Lua 5.0 header.
Header50(endianness, size_t_width, layout, test_number) ==
    <<80, endianness, 4, size_t_width, 4>> \o layout \o <<8>> \o test_number

Prefixes(bytes) == {SubSeq(bytes, 1, k) : k \in 0..(Len(bytes) - 1)}

\* Headers in which any of the checked bytes may be wrong, several at once.
WidthBodies ==
    {<<81, 0, e, iw, sw, cw, nw, 0>> : e \in 1..2, iw \in 4..5, sw \in 4..5, cw \in 4..5, nw \in 4..5}
    \cup {<<80, e, iw, sw, cw>> \o layout \o <<nw>> \o TestNumber :
            e \in 1..2, iw \in 4..5, sw \in 4..5, cw \in 4..5, nw \in 4..5,
            layout \in {<<6, 8, 9, 9>>, <<6, 9, 9, 8>>}}

HeaderBodies ==
    {Header51(0, e, w, i) : e \in 0..2, w \in {4, 8}, i \in 0..1}
    \cup {Header50(e, w, <<6, 8, 9, 9>>, t) : e \in 0..1, w \in {4, 8}, t \in {TestNumber, Reverse(TestNumber)}}
    \cup {Header50(1, 8, <<6, 9, 9, 8>>, TestNumber), <<82>>}
    \cup Prefixes(Header51(0, 1, 8, 0))
    \cup Prefixes(Header50(1, 8, <<6, 8, 9, 9>>, TestNumber))
    \cup WidthBodies

Headers == {signature \o body : signature \in {LuaSignature, OtherSignature, NoSignature}, body \in HeaderBodies}

\* The output formats tried: the default one and the one of a 32 bit target.
OutputFormats == {DefaultFormat, [DefaultFormat EXCEPT !.size_t_width = "Bit32"]}

\* The settings tried: the small defaults, and a Lua 5.1 input with its own
\* signature and fields_per_flush.
UnifySettings ==
    {Settings(1, 2, 2),
     [Settings(1, 3, 2) EXCEPT !.lua51.binary_signature = OtherSignature]}

\* The root prototypes tried (their instructions are read as those of the
\* version that the header names).
UnifyPrograms == {<<Instruction("LoadK", 1, Bx(0))>>,
                  <<Instruction("LoadK", 1, Bx(0)), Instruction("Jump", 0, SignedBx(0 - 2))>>}

InitUnify ==
    \E header \in Headers : \E program \in UnifyPrograms : \E trailing \in {<<>>, <<0>>} :
    \E format \in OutputFormats : \E test \in BOOLEAN : \E s \in UnifySettings :
        Called(header, Function(program, Lines(Len(program)), Pool, 2, 0, 0), trailing, format, test, s)

SpecUnify == InitUnify /\ [][NextUnify]_vars

(***************************************************************************)
(* A ConstantManager used on its own: a pool, the settings, and a run of   *)
(* calls of its three public functions.                                    *)
(***************************************************************************)
\* The constants a pool is made of; one of them has a name create_unique mints.
PoolConstants ==
    {ConstantNil, ConstantNumber(0), ConstantString("type" \o NUL), ConstantString(UniqueName(0, 0))}
Pools == UNION {[1..n -> PoolConstants] : n \in 0..MaxPool}

\* settings.output.layout.b.size = size, as constant_allocate_new_too_many sets it.
ManagerSettings(size) == [Settings(1, 2, 2) EXCEPT !.output.b_size = size]

\* ConstantManager { settings, constants }
Managed(pool, s) ==
    /\ input_bytes = [header |-> <<>>, trailing |-> <<>>]
    /\ output_format = DefaultFormat
    /\ cfg_test = FALSE
    /\ unified = NoUnified
    /\ version = "None"
    /\ function = Function(<<>>, <<>>, pool, 2, 0, 0)
    /\ settings = s
    /\ builder = EmptyBuilder
    /\ constants = pool
    /\ maximum_stack_size = 2
    /\ is_variadic = 0
    /\ index = 0
    /\ pc = "manager"
    /\ result = NoResult
    /\ calls = <<>>
    /\ Pieces

InitManager == \E pool \in Pools : \E size \in 1..3 : Managed(pool, ManagerSettings(size))

\* One call: what was called with what, the pool before and after, and what
\* came back.
Call(op, argument, r) ==
    [op |-> op, argument |-> argument, before |-> constants, after |-> r.constants,
     outcome |-> r.outcome, index |-> r.index]

\* What a call on the manager leaves alone.
around == <<call, unified, version, builder, maximum_stack_size, is_variadic, index, pc, result, pieces>>

CallConstantForStr ==
    /\ pc = "manager"
    /\ Len(calls) < MaxCalls
    /\ \E constant_str \in {"type", "next"} :
        LET made == Call("constant_for_str", constant_str,
                         constant_for_str(constants, constant_str, settings))
        IN  /\ constants' = made.after
            /\ calls' = Append(calls, made)
    /\ UNCHANGED around

CallConstantNil ==
    /\ pc = "manager"
    /\ Len(calls) < MaxCalls
    /\ LET made == Call("constant_nil", "", constant_nil(constants, settings))
       IN  /\ constants' = made.after
           /\ calls' = Append(calls, made)
    /\ UNCHANGED around

CallCreateUnique ==
    /\ pc = "manager"
    /\ Len(calls) < MaxCalls
    /\ \E program_counter \in 0..1 :
        LET made == Call("create_unique", ToString(program_counter),
                         create_unique(constants, program_counter, settings))
        IN  /\ constants' = made.after
            /\ calls' = Append(calls, made)
    /\ UNCHANGED around

NextManager == CallConstantForStr \/ CallConstantNil \/ CallCreateUnique
SpecManager == InitManager /\ [][NextManager]_vars

\* The managers used on their own, and the managers that upcast makes for
\* the generated programs and table constructors.
InitConstants == InitManager \/ InitRewrite
SpecConstants == InitConstants /\ [][NextManager \/ NextFunction]_vars

(***************************************************************************)
(* InstructionLayout::from_specification used on its own.  A u64 is the    *)
(* set of the positions of its one bits, so that the masks and shifts of   *)
(* the code are computed on all 64 bits.                                   *)
(***************************************************************************)
BitPositions == 0..63
\* !0 as u64
AllOnes == BitPositions
\* value >> amount and value << amount on a u64, for an amount below 64
shr(value, amount) == {i - amount : i \in {j \in value : j >= amount}}
shl(value, amount) == {i + amount : i \in {j \in value : j + amount \in BitPositions}}
\* 2^n - 1 as a u64
Ones(n) == 0..(n - 1)

\* Before the loop: let mut opcode = None, a = None, b = None, c = None.
LayoutNoneFound == [kind \in {"Opcode", "A", "B", "C"} |-> <<>>]

\* OperandLayout::new
OperandLayout_new(size, position) ==
    [size |-> size, position |-> position, bit_mask |-> shr(AllOnes, 64 - size)]

\* The lower end of the range each arm of from_specification checks.
MinimumSize(kind) == CASE kind = "Opcode" -> 6 [] kind = "A" -> 7 [] OTHER -> 8
\* A range that is closed at 32.
RangeUpTo32(size, minimum) == size \in minimum..32
\* (minimum..32).contains(&size)
RangeContains(size, minimum) == size >= minimum /\ size < 32

InvalidInstructionLayout == [outcome |-> "InvalidInstructionLayout"]

\* The for loop of from_specification over the entries from the k-th on:
\* found holds the operands set so far, offset the running bit offset.
RECURSIVE SpecificationLoop(_, _, _)
SpecificationLoop(entries, k, state) ==
    IF k > Len(entries) THEN state
    ELSE LET operand == entries[k]
         IN  IF ~RangeContains(operand.size, MinimumSize(operand.kind)) \/ state.found[operand.kind] # <<>>
             THEN [state EXCEPT !.failed = TRUE]
             ELSE SpecificationLoop(entries, k + 1,
                     [state EXCEPT !.found[operand.kind] = <<OperandLayout_new(operand.size, state.offset)>>,
                                   !.offset = @ + operand.size])

\* InstructionLayout::from_specification
from_specification(entries) ==
    LET state == SpecificationLoop(entries, 1, [found |-> LayoutNoneFound, offset |-> 0, failed |-> FALSE])
    IN  IF state.failed THEN InvalidInstructionLayout
        ELSE IF \E kind \in DOMAIN state.found : state.found[kind] = <<>> THEN [outcome |-> "Panic"]
        ELSE LET opcode == state.found["Opcode"][1]
                 a == state.found["A"][1]
                 b == state.found["B"][1]
                 c == state.found["C"][1]
                 bx_size == b.size + c.size
                 bx_position == Min(b.position, c.position)
             IN  IF c.position + c.size # b.position /\ b.position + b.size # c.position
                 THEN InvalidInstructionLayout
                 ELSE [outcome |-> "Ok", opcode |-> opcode, a |-> a, b |-> b, c |-> c,
                       bx |-> OperandLayout_new(bx_size, bx_position),
                       signed_offset |-> shr(AllOnes, 64 - bx_size + 1)]

\* Everything but the layout component at rest.
Idle(at) ==
    /\ input_bytes = [header |-> <<>>, trailing |-> <<>>]
    /\ output_format = DefaultFormat
    /\ cfg_test = FALSE
    /\ unified = NoUnified
    /\ version = "None"
    /\ function = Function(<<>>, <<>>, <<>>, 2, 0, 0)
    /\ settings = Settings(1, 2, 2)
    /\ builder = EmptyBuilder
    /\ constants = <<>>
    /\ maximum_stack_size = 2
    /\ is_variadic = 0
    /\ index = 0
    /\ pc = at
    /\ result = NoResult
    /\ calls = <<>>

\* The entries a specification is drawn from: every kind with sizes on both
\* sides of both ends of its range.
OperandTypes ==
    {[kind |-> "Opcode", size |-> n] : n \in {5, 6, 31, 32}}
    \cup {[kind |-> "A", size |-> n] : n \in {6, 7, 8, 31, 32}}
    \cup {[kind |-> k, size |-> n] : k \in {"B", "C"}, n \in {7, 8, 9, 31, 32}}
Specifications == [1..4 -> OperandTypes]

InitLayout ==
    /\ Idle("specified")
    /\ specification \in Specifications
    /\ instruction_layout = NoLayout
    /\ overflow_checks = FALSE
    /\ exercise = NoExercise

FromSpecification ==
    /\ pc = "specified"
    /\ instruction_layout' = from_specification(specification)
    /\ pc' = "laid out"
    /\ UNCHANGED <<call, unified, version, builder, constants, maximum_stack_size, is_variadic, index,
                   result, calls, specification, overflow_checks, exercise>>

SpecLayout == InitLayout /\ [][FromSpecification]_vars

(***************************************************************************)
(* The operands of an accepted layout used on their own: get then put of   *)
(* an instruction word, put then get of a value.                           *)
(***************************************************************************)
Panicked == Err("Panic", {})

\* A shift by 64 or more panics in a build with overflow checks and shifts
\* by the amount modulo 64 in a build without.
shift_right(value, amount, checks) ==
    IF amount < 64 THEN Ok(shr(value, amount))
    ELSE IF checks THEN Panicked ELSE Ok(shr(value, amount % 64))
shift_left(value, amount, checks) ==
    IF amount < 64 THEN Ok(shl(value, amount))
    ELSE IF checks THEN Panicked ELSE Ok(shl(value, amount % 64))

\* OperandLayout::get
OperandLayout_get(operand, value, checks) ==
    LET shifted == shift_right(value, operand.position, checks)
    IN  IF shifted.outcome # "Ok" THEN shifted ELSE Ok(shifted.value \cap operand.bit_mask)

\* value > (1 << size) - 1
Exceeds(value, size) == \E i \in value : i >= size

\* OperandLayout::put
OperandLayout_put(operand, value, checks) ==
    IF Exceeds(value, operand.size) THEN Err("ValueTooBigForOperand", {})
    ELSE shift_left(value \cap operand.bit_mask, operand.position, checks)

\* The bits of a small non-negative integer, and the integer of a set of them.
Powers == [i \in 0..30 |-> Pow2(i)]
BitsOf(n) == {i \in 0..30 : (n \div Powers[i]) % 2 = 1}
RECURSIVE ValueOf(_)
ValueOf(bits) ==
    IF bits = {} THEN 0
    ELSE LET i == CHOOSE j \in bits : TRUE IN Powers[i] + ValueOf(bits \ {i})
\* n as u64 and bits as i64, in two's complement
as_u64(n) == IF n >= 0 THEN BitsOf(n) ELSE AllOnes \ BitsOf(0 - n - 1)
as_i64(bits) == IF 63 \in bits THEN 0 - ValueOf(AllOnes \ bits) - 1 ELSE ValueOf(bits)

\* SignedBx::get and SignedBx::put; value is an i64
SignedBx_get(l, value, checks) ==
    LET got == OperandLayout_get(l.bx, value, checks)
    IN  IF got.outcome # "Ok" THEN got ELSE Ok(as_i64(got.value) - as_i64(l.signed_offset))
SignedBx_put(l, value, checks) ==
    OperandLayout_put(l.bx, as_u64(value + as_i64(l.signed_offset)), checks)

\* The specifications the operands are exercised with: every order of the
\* four kinds, every kind either as wide as in the default layout or 31 bits.
FieldKinds == {"Opcode", "A", "B", "C"}
DefaultSize(kind) == CASE kind = "Opcode" -> 6 [] kind = "A" -> 8 [] OTHER -> 9
OperandSpecifications ==
    {spec \in [1..4 -> {[kind |-> k, size |-> n] : k \in FieldKinds, n \in {6, 8, 9, 31}}] :
        /\ \A k \in FieldKinds : \E i \in 1..4 : spec[i].kind = k
        /\ \A i \in 1..4 : spec[i].size \in {DefaultSize(spec[i].kind), 31}}

InitOperand ==
    /\ Idle("specified")
    /\ specification \in OperandSpecifications
    /\ instruction_layout = NoLayout
    /\ overflow_checks \in BOOLEAN
    /\ exercise = NoExercise

Fields == {"opcode", "a", "b", "c", "bx"}
\* The instruction words handed to get.
Words == {{}, AllOnes, 0..31, {i \in BitPositions : i % 2 = 0}, {i \in BitPositions : i % 3 = 1}}
\* The values handed to put of an operand of the given size.
Values(size) == {{}, {0}, {size - 1}, Ones(size), {size}, {0, size}, AllOnes}
NoCall == Err("None", {})

Exercised(op, field, input, first, second) ==
    [op |-> op, field |-> field, input |-> input, first |-> first, second |-> second]
beside == <<call, unified, version, builder, constants, maximum_stack_size, is_variadic, index,
            result, calls, specification, instruction_layout, overflow_checks>>

\* layout.put(layout.get(word))
GetPut ==
    /\ pc = "laid out" /\ instruction_layout.outcome = "Ok"
    /\ \E field \in Fields : \E word \in Words :
        LET operand == instruction_layout[field]
            got == OperandLayout_get(operand, word, overflow_checks)
        IN  exercise' = Exercised("get_put", field, word, got,
                IF got.outcome = "Ok" THEN OperandLayout_put(operand, got.value, overflow_checks)
                ELSE NoCall)
    /\ pc' = "exercised"
    /\ UNCHANGED beside

\* layout.get(layout.put(value)?)
PutGet ==
    /\ pc = "laid out" /\ instruction_layout.outcome = "Ok"
    /\ \E field \in Fields : \E value \in Values(instruction_layout[field].size) :
        LET operand == instruction_layout[field]
            put == OperandLayout_put(operand, value, overflow_checks)
        IN  exercise' = Exercised("put_get", field, value, put,
                IF put.outcome = "Ok" THEN OperandLayout_get(operand, put.value, overflow_checks)
                ELSE NoCall)
    /\ pc' = "exercised"
    /\ UNCHANGED beside

\* SignedBx::get(SignedBx(value).put()?), for the layouts whose bias is
\* below 2^30, so that the i64 values are kept as integers.
SignedPutGet ==
    /\ pc = "laid out" /\ instruction_layout.outcome = "Ok"
    /\ instruction_layout.bx.size <= 30
    /\ LET bias == as_i64(instruction_layout.signed_offset)
       IN  \E value \in {0 - bias - 2, 0 - bias - 1, 0 - bias, 0 - 1, 0, 1, bias, bias + 1, bias + 2, bias + 3} :
            LET put == SignedBx_put(instruction_layout, value, overflow_checks)
            IN  exercise' = Exercised("signed_put_get", "bx", value, put,
                    IF put.outcome = "Ok" THEN SignedBx_get(instruction_layout, put.value, overflow_checks)
                    ELSE NoCall)
    /\ pc' = "exercised"
    /\ UNCHANGED beside

NextOperand == FromSpecification \/ GetPut \/ PutGet \/ SignedPutGet
SpecOperand == InitOperand /\ [][NextOperand]_vars

(***************************************************************************)
(* The constant-or-register operands B and C: decoded from a word of       *)
(* either input, then encoded into the output word or moved on the stack.  *)
(***************************************************************************)
\* ModeGet<lua50::Instruction> for ConstantRegister
ConstantRegister_get_lua50(value, s, operand) ==
    LET got == ValueOf(OperandLayout_get(operand, value, FALSE).value)
        is_constant == got >= s.lua50.stack_limit
    IN  ConstantRegister(IF is_constant THEN got - s.lua50.stack_limit ELSE got, is_constant)

\* ModeGet<lua51::Instruction> for ConstantRegister; value ^= constant_bit
ConstantRegister_get_lua51(value, s, operand) ==
    LET got == OperandLayout_get(operand, value, FALSE).value
        constant_bit == BitsOf(get_constant_bit(s.lua51))
        is_constant == got \cap constant_bit # {}
    IN  ConstantRegister(ValueOf(IF is_constant THEN (got \ constant_bit) \cup (constant_bit \ got) ELSE got),
                         is_constant)

\* A put that writes the plain index whether or not it names a constant.
ConstantRegister_put_plain(operand_value, s, operand) ==
    IF operand_value.value > get_maximum_constant_index(s.output)
        THEN Err("ValueTooBigForOperand", {})
        ELSE OperandLayout_put(operand, BitsOf(operand_value.value), FALSE)

\* ModePut for ConstantRegister
ConstantRegister_put(operand_value, s, operand) ==
    IF operand_value.value > get_maximum_constant_index(s.output)
        THEN Err("ValueTooBigForOperand", {})
        ELSE OperandLayout_put(operand,
                               IF operand_value.is_constant
                                   THEN BitsOf(operand_value.value) \cup BitsOf(get_constant_bit(s.output))
                                   ELSE BitsOf(operand_value.value),
                               FALSE)

\* A layout with the default opcode and A and the given sizes of C and B.
LayoutOf(c_size, b_size) ==
    from_specification(<<[kind |-> "Opcode", size |-> 6], [kind |-> "A", size |-> 8],
                         [kind |-> "C", size |-> c_size], [kind |-> "B", size |-> b_size]>>)
\* The sizes of B and C tried: the default one and the smallest one.
OperandSizes == {MinimumSize("B"), OutputBSize}
\* The raw values of a field: around 0, the constant bits and the stack limit.
RawValues ==
    {0, 1, Pow2(MinimumSize("B") - 1) - 1, Pow2(MinimumSize("B") - 1), Pow2(MinimumSize("B") - 1) + 1,
     StackLimit - 1, StackLimit, StackLimit + 1, ByteMax, ByteMax + 1, ByteMax + 2,
     ByteMax + StackLimit, Pow2(OutputBSize) - 1}

\* A word whose field holds raw, with every other bit clear or set.
InitConstantRegister ==
    /\ input_bytes = [header |-> <<>>, trailing |-> <<>>]
    /\ output_format = DefaultFormat
    /\ cfg_test = FALSE
    /\ unified = NoUnified
    /\ function = Function(<<>>, <<>>, <<>>, 2, 0, 0)
    /\ builder = EmptyBuilder
    /\ constants = <<>>
    /\ maximum_stack_size = 2
    /\ is_variadic = 0
    /\ index = 0
    /\ pc = "word"
    /\ result = NoResult
    /\ calls = <<>>
    /\ overflow_checks = FALSE
    /\ version \in {"Lua50", "Lua51"}
    /\ \E c_in \in OperandSizes, b_in \in OperandSizes, c_out \in OperandSizes, b_out \in OperandSizes :
        /\ specification = <<[kind |-> "Opcode", size |-> 6], [kind |-> "A", size |-> 8],
                              [kind |-> "C", size |-> c_out], [kind |-> "B", size |-> b_out]>>
        /\ instruction_layout = from_specification(specification)
        /\ settings = [Settings(1, 2, 2) EXCEPT !.lua50.b_size = b_in, !.lua51.b_size = b_in,
                                                 !.output.b_size = b_out]
        /\ \E field \in {"b", "c"} : \E fill \in BOOLEAN :
           \E raw \in {r \in RawValues : r < Pow2(LayoutOf(c_in, b_in)[field].size)} :
            LET operand == LayoutOf(c_in, b_in)[field]
                held == shl(BitsOf(raw), operand.position)
                others == IF fill THEN BitPositions \ shl(operand.bit_mask, operand.position) ELSE {}
            IN  exercise = Exercised("get", field,
                                     [raw |-> raw, word |-> held \cup others, operand |-> operand,
                                      stack_start |-> 0, offset |-> 0],
                                     NoCall, NoCall)

\* ConstantRegister::get on the B or C field of the input word
DecodeOperand ==
    /\ pc = "word"
    /\ exercise' = [exercise EXCEPT
            !.first = IF version = "Lua50"
                        THEN ConstantRegister_get_lua50(exercise.input.word, settings, exercise.input.operand)
                        ELSE ConstantRegister_get_lua51(exercise.input.word, settings, exercise.input.operand)]
    /\ pc' = "decoded"
    /\ UNCHANGED beside

\* ConstantRegister::put into the same field of the output word
EncodeOperand ==
    /\ pc = "decoded"
    /\ exercise' = [exercise EXCEPT
            !.op = "put",
            !.second = ConstantRegister_put(exercise.first, settings, instruction_layout[exercise.field])]
    /\ pc' = "encoded"
    /\ UNCHANGED beside

\* ConstantRegister::offset
OffsetOperand ==
    /\ pc = "decoded"
    /\ \E stack_start \in {0, 1, StackLimit} : \E offset \in {0 - 1, 1, 2} :
        exercise' = [exercise EXCEPT
            !.op = "offset",
            !.input.stack_start = stack_start,
            !.input.offset = offset,
            !.second = OperandOffset(exercise.first, stack_start, offset)]
    /\ pc' = "moved"
    /\ UNCHANGED beside

NextConstantRegister == DecodeOperand \/ EncodeOperand \/ OffsetOperand
SpecConstantRegister == InitConstantRegister /\ [][NextConstantRegister]_vars

(***************************************************************************)
(* ByteWriter::number and ByteStream::number used on their own.  An i64 is *)
(* the set of the one bits of its two's complement; a float is a sign, an  *)
(* odd mantissa (a set of bits again) and a power of two, or zero, an      *)
(* infinity or a NaN.  No value of the runs is subnormal in either width.  *)
(***************************************************************************)
Highest(bits) == CHOOSE i \in bits : \A j \in bits : j <= i
Lowest(bits) == CHOOSE i \in bits : \A j \in bits : i <= j
\* bits + 1 and -bits on 64 bits
Increment(bits) ==
    LET carried == {i \in BitPositions : \A j \in 0..i : j \in bits}
        stop == Cardinality(carried)
    IN  (bits \ carried) \cup ({stop} \cap BitPositions)
Negate(bits) ==
    IF bits = {} THEN {}
    ELSE {Lowest(bits)} \cup {i \in BitPositions : i > Lowest(bits) /\ i \notin bits}

I64Max == 0..62
I64Min == {63}

NumberInteger(bits) == [tag |-> "Integer", bits |-> bits]
NumberFloat(float) == [tag |-> "Float", float |-> float]
Finite(negative, mantissa, exponent) ==
    [class |-> "finite", negative |-> negative, mantissa |-> mantissa, exponent |-> exponent]
Zero == [class |-> "zero", negative |-> FALSE, mantissa |-> {}, exponent |-> 0]
Infinity(negative) == [class |-> "inf", negative |-> negative, mantissa |-> {}, exponent |-> 0]
NaN == [class |-> "nan", negative |-> FALSE, mantissa |-> {}, exponent |-> 0]

\* The float mantissa * 2^exponent with the mantissa made odd.
Normalised(negative, mantissa, exponent) ==
    IF mantissa = {} THEN Zero
    ELSE Finite(negative, shr(mantissa, Lowest(mantissa)), exponent + Lowest(mantissa))

\* Rounding to nearest, ties to even, to a mantissa of the given precision
\* and a largest exponent: what `as f32` does to an f64 and `as f64` to an i64.
RoundTo(negative, mantissa, exponent, precision, largest) ==
    IF mantissa = {} THEN Zero
    ELSE LET dropped == Max(0, Highest(mantissa) + 1 - precision)
             kept == shr(mantissa, dropped)
             half == dropped > 0 /\ (dropped - 1) \in mantissa
             sticky == \E i \in mantissa : i < dropped - 1
             rounded == IF half /\ (sticky \/ 0 \in kept) THEN Increment(kept) ELSE kept
         IN  IF Highest(rounded) + exponent + dropped > largest THEN Infinity(negative)
             ELSE Normalised(negative, rounded, exponent + dropped)

\* f64 as f32, f32 as f64
f64_as_f32(float) ==
    IF float.class # "finite" THEN float
    ELSE RoundTo(float.negative, float.mantissa, float.exponent, 24, 127)
\* i64 as f64
i64_as_f64(bits) ==
    IF 63 \in bits THEN RoundTo(TRUE, Negate(bits), 0, 53, 1023)
    ELSE RoundTo(FALSE, bits, 0, 53, 1023)
\* f64 as i64: towards zero, saturating, NaN to 0
f64_as_i64(float) ==
    CASE float.class = "nan" -> {}
      [] float.class = "zero" -> {}
      [] float.class = "inf" -> IF float.negative THEN I64Min ELSE I64Max
      [] OTHER ->
            IF Highest(float.mantissa) + float.exponent >= 63
            THEN IF float.negative THEN I64Min ELSE I64Max
            ELSE IF float.exponent < 0
            THEN LET whole == shr(float.mantissa, 0 - float.exponent)
                 IN  IF float.negative THEN Negate(whole) ELSE whole
            ELSE IF float.negative THEN Negate(shl(float.mantissa, float.exponent))
                 ELSE shl(float.mantissa, float.exponent)
\* value == value.round()
IsRound(float) == float.class \in {"zero", "inf"} \/ (float.class = "finite" /\ float.exponent >= 0)

\* Number::as_integer
Number_as_integer(number) ==
    IF number.tag = "Integer" THEN Ok(number.bits)
    ELSE IF IsRound(number.float) THEN Ok(f64_as_i64(number.float))
    ELSE Err("FloatPrecisionLoss", {})

\* Number::as_float; f64::MAX as i64 is i64::MAX
Number_as_float(number) ==
    IF number.tag = "Float" THEN Ok(number.float)
    ELSE IF number.bits # I64Max THEN Ok(i64_as_f64(number.bits))
    ELSE Err("IntegerOverflow", {})

\* The bits of an IEEE 754 float with the given precision and exponent bias
\* (f32: 24 and 127, f64: 53 and 1023), and the float of the bits.
to_bits(float, precision, bias) ==
    LET sign == IF float.negative THEN {precision + (IF precision = 24 THEN 7 ELSE 10)} ELSE {}
        ones == {i + precision - 1 : i \in BitsOf(2 * bias + 1)}
    IN  CASE float.class = "zero" -> sign
          [] float.class = "inf" -> sign \cup ones
          [] float.class = "nan" -> ones \cup {precision - 2}
          [] OTHER ->
                LET top == Highest(float.mantissa)
                IN  sign \cup {i + precision - 1 : i \in BitsOf(float.exponent + top + bias)}
                         \cup {i + precision - 1 - top : i \in float.mantissa \ {top}}
from_bits(bits, precision, bias) ==
    LET width == precision + (IF precision = 24 THEN 8 ELSE 11)
        negative == (width - 1) \in bits
        field == ValueOf({i - (precision - 1) : i \in {j \in bits : j >= precision - 1 /\ j < width - 1}})
        fraction == {i \in bits : i < precision - 1}
    IN  IF field = 2 * bias + 1 THEN (IF fraction = {} THEN Infinity(negative) ELSE NaN)
        ELSE IF field = 0 /\ fraction = {} THEN [Zero EXCEPT !.negative = negative]
        ELSE Normalised(negative, fraction \cup {precision - 1}, field - bias - (precision - 1))

\* to_le_bytes / to_be_bytes of the low 8 * count bits, and from_*_bytes
le_bytes(bits, count) == [k \in 1..count |-> ValueOf({i - 8 * (k - 1) : i \in {j \in bits : j \div 8 = k - 1}})]
from_le(bytes) == UNION {{i + 8 * (k - 1) : i \in BitsOf(bytes[k])} : k \in DOMAIN bytes}
\* i32 as i64
sign_extend(bits) == IF 31 \in bits THEN bits \cup 32..63 ELSE bits

\* to_slice!: the bytes of 64 bits, or of the value cast to the 32 bit type
to_slice(bits64, bits32, width, endianness) ==
    LET little == IF width = "Bit32" THEN le_bytes(bits32, 4) ELSE le_bytes(bits64, 8)
    IN  IF endianness = "Little" THEN little ELSE Reverse(little)

\* ByteWriter::number: the bytes it appends, or the error
ByteWriter_number(number, format) ==
    IF format.is_number_integral
    THEN LET integer == Number_as_integer(number)
         IN  IF integer.outcome # "Ok" THEN Err(integer.outcome, <<>>)
             ELSE Ok(to_slice(integer.value, integer.value \cap 0..31, format.number_width, format.endianness))
    ELSE LET float == Number_as_float(number)
         IN  IF float.outcome # "Ok" THEN Err(float.outcome, <<>>)
             ELSE Ok(to_slice(to_bits(float.value, 53, 1023), to_bits(f64_as_f32(float.value), 24, 127),
                              format.number_width, format.endianness))

\* ByteStream::number on a stream that holds exactly the given bytes
ByteStream_number(bytes, format) ==
    LET count == IF format.number_width = "Bit32" THEN 4 ELSE 8
        bits == from_le(IF format.endianness = "Little" THEN bytes ELSE Reverse(bytes))
    IN  IF Len(bytes) < count THEN Err("InputTooShort", <<>>)
        ELSE IF format.is_number_integral
        THEN Ok(NumberInteger(IF count = 4 THEN sign_extend(bits) ELSE bits))
        ELSE Ok(NumberFloat(IF count = 4 THEN from_bits(bits, 24, 127) ELSE from_bits(bits, 53, 1023)))

\* The numbers written: integers at the ends of the i32, f64 and i64 ranges,
\* floats that are whole, fractional, too precise or too large for an f32.
Numbers ==
    {NumberInteger(bits) : bits \in {{}, {0, 3}, AllOnes, 0..30, {31}, 31..63, (32..63) \cup (0..30),
                                     {0, 24}, {0, 53}, {62}, I64Max, 0..61, I64Min}}
    \cup {NumberFloat(float) : float \in
            {Zero, NaN, Infinity(FALSE),
             Finite(FALSE, {0, 3}, 0), Finite(TRUE, {0, 3}, 0), Finite(FALSE, {0, 2, 4}, 0 - 1),
             Finite(FALSE, {0}, 31), Finite(TRUE, {0}, 31), Finite(FALSE, {0, 24}, 0),
             Finite(FALSE, {0}, 0 - 3), Finite(FALSE, {0, 1, 25}, 0 - 20), Finite(FALSE, {0}, 63),
             Finite(FALSE, {0}, 200), Finite(FALSE, 0..52, 0 - 56)}}
NumberFormats ==
    {Format(0, e, "Bit32", "Bit32", "Bit32", w, integral) :
        e \in {"Little", "Big"}, w \in {"Bit32", "Bit64"}, integral \in BOOLEAN}

InitNumber ==
    /\ input_bytes = [header |-> <<>>, trailing |-> <<>>]
    /\ cfg_test = FALSE
    /\ unified = NoUnified
    /\ version = "None"
    /\ function = Function(<<>>, <<>>, <<>>, 2, 0, 0)
    /\ settings = Settings(1, 2, 2)
    /\ builder = EmptyBuilder
    /\ constants = <<>>
    /\ maximum_stack_size = 2
    /\ is_variadic = 0
    /\ index = 0
    /\ pc = "number"
    /\ result = NoResult
    /\ calls = <<>>
    /\ specification = <<>>
    /\ instruction_layout = NoLayout
    /\ overflow_checks = FALSE
    /\ \E number \in Numbers : exercise = Exercised("number", "", number, NoCall, NoCall)
    /\ output_format \in NumberFormats

\* writer.number(value)
WriteNumber ==
    /\ pc = "number"
    /\ exercise' = [exercise EXCEPT !.first = ByteWriter_number(exercise.input, output_format)]
    /\ pc' = "written"
    /\ UNCHANGED beside

\* ByteStream::new(&bytes) with the same format, then stream.number()
ReadNumber ==
    /\ pc = "written" /\ exercise.first.outcome = "Ok"
    /\ exercise' = [exercise EXCEPT !.second = ByteStream_number(exercise.first.value, output_format)]
    /\ pc' = "read back"
    /\ UNCHANGED beside

NextNumber == WriteNumber \/ ReadNumber
SpecNumber == InitNumber /\ [][NextNumber]_vars

(***************************************************************************)
(* unify on the bytes of a whole Lua 5.1 chunk: the ByteStream reads, the  *)
(* prototype read by Function::from_byte_stream and written by             *)
(* Function::write.  A String is the sequence of its chars.                *)
(***************************************************************************)
Read(outcome, value, offset) == [outcome |-> outcome, value |-> value, offset |-> offset]

\* ByteStream::byte and ByteStream::slice, with the offset they leave
ByteStream_byte(data, offset) ==
    IF offset < Len(data) THEN Read("Ok", data[offset + 1], offset + 1)
    ELSE Read("InputTooShort", 0, offset + 1)
ByteStream_slice(data, offset, length) ==
    IF offset + length > Len(data) THEN Read("InputTooShort", <<>>, offset + length)
    ELSE Read("Ok", SubSeq(data, offset + 1, offset + length), offset + length)

\* from_slice!: the bits of the next 4 or 8 bytes in the given byte order
from_slice(data, offset, width, endianness) ==
    LET read == ByteStream_slice(data, offset, BitWidth_into(width))
    IN  IF read.outcome # "Ok" THEN read
        ELSE Read("Ok", from_le(IF endianness = "Little" THEN read.value ELSE Reverse(read.value)),
                  read.offset)

\* ByteStream::integer, size_t and instruction
Signed(read, width) ==
    IF read.outcome # "Ok" THEN read
    ELSE Read("Ok", as_i64(IF width = "Bit32" THEN sign_extend(read.value) ELSE read.value), read.offset)
ByteStream_integer(data, offset, fmt) ==
    Signed(from_slice(data, offset, fmt.integer_width, fmt.endianness), fmt.integer_width)
ByteStream_size_t(data, offset, fmt) ==
    Signed(from_slice(data, offset, fmt.size_t_width, fmt.endianness), fmt.size_t_width)
ByteStream_instruction(data, offset, fmt) ==
    from_slice(data, offset, fmt.instruction_width, fmt.endianness)

\* ByteStream::string with a negative size_t: length as usize is 2^64 + length,
\* and self.offset += length overflows.  A build with overflow checks aborts
\* there; one without wraps to start + length, which is below start and not
\* beyond the data, and the slicing data[start..self.offset] aborts.
string_overflow(data, start, length) == Read("Panic", <<>>, start + length)

\* ByteStream::string: every byte becomes the char of the same code point
ByteStream_string(data, offset, fmt) ==
    LET length == ByteStream_size_t(data, offset, fmt)
    IN  IF length.outcome # "Ok" THEN length
        ELSE IF length.value < 0 THEN string_overflow(data, length.offset, length.value)
        ELSE IF length.offset + length.value > Len(data)
        THEN Read("InputTooShort", <<>>, length.offset + length.value)
        ELSE Read("Ok", SubSeq(data, length.offset + 1, length.offset + length.value),
                  length.offset + length.value)

\* ByteStream::number at an offset
ByteStream_number_at(data, offset, fmt) ==
    LET read == ByteStream_slice(data, offset, BitWidth_into(fmt.number_width))
    IN  IF read.outcome # "Ok" THEN read
        ELSE Read("Ok", ByteStream_number(read.value, fmt).value, read.offset)

(***************************************************************************)
(* The reads of a ByteStream on their own, one after the other on the same *)
(* stream.  exercise.input is the stream (data, offset, the reads made),   *)
(* exercise.first what the last read returned, exercise.second the read it *)
(* was and the offset it started at.                                       *)
(***************************************************************************)
\* The most reads made on one stream.
MaxReads == 2
\* The longest tail behind the length prefix of a generated stream.
MaxTail == 2
\* The longest slice asked for.
MaxSlice == 3

\* The values of the length prefix: negative, zero, within and beyond the tail.
PrefixValues == {0 - 2, 0 - 1, 0, 1, 2, 3, Pow2(20)}
Tails == UNION {[1..n -> {1, 65}] : n \in 0..MaxTail}
StreamFormats ==
    {Format(0, e, w, w, w, w, integral) : e \in {"Little", "Big"}, w \in {"Bit32", "Bit64"},
                                          integral \in BOOLEAN}
\* A size_t and a tail, cut off anywhere.
Streams(fmt) ==
    {SubSeq(whole, 1, Min(cut, Len(whole))) :
        cut \in 0..(BitWidth_into(fmt.size_t_width) + MaxTail),
        whole \in {to_slice(as_u64(length), as_u64(length) \cap 0..31, fmt.size_t_width, fmt.endianness) \o tail :
                        length \in PrefixValues, tail \in Tails}}

InitStream ==
    /\ input_bytes = [header |-> <<>>, trailing |-> <<>>]
    /\ cfg_test = FALSE
    /\ unified = NoUnified
    /\ version = "None"
    /\ function = Function(<<>>, <<>>, <<>>, 2, 0, 0)
    /\ settings = Settings(1, 2, 2)
    /\ builder = EmptyBuilder
    /\ constants = <<>>
    /\ maximum_stack_size = 2
    /\ is_variadic = 0
    /\ index = 0
    /\ pc = "stream"
    /\ result = NoResult
    /\ calls = <<>>
    /\ specification = <<>>
    /\ instruction_layout = NoLayout
    /\ overflow_checks = FALSE
    /\ \E fmt \in StreamFormats : \E data \in Streams(fmt) :
        /\ output_format = fmt
        /\ exercise = Exercised("stream", "", [data |-> data, offset |-> 0, reads |-> 0], NoCall, NoCall)

\* A read can be made: a read that aborted is the last.
CanRead ==
    /\ pc = "stream"
    /\ exercise.input.reads < MaxReads
    /\ exercise.first.outcome # "Panic"
\* The stream and the record of the read after a read.
AfterRead(op, length, read) ==
    [exercise EXCEPT !.input.offset = read.offset,
                     !.input.reads = @ + 1,
                     !.first = read,
                     !.second = [op |-> op, at |-> exercise.input.offset, length |-> length]]

\* The next bytes of the stream, read as an integer of the given width, are
\* an i64 within the i32 range (the range of the integers computed with here).
WithinI32(width) ==
    LET read == from_slice(exercise.input.data, exercise.input.offset, width, output_format.endianness)
    IN  read.outcome = "Ok" =>
            (IF width = "Bit32" THEN sign_extend(read.value) ELSE read.value) \cap 31..63 \in {{}, 31..63}

StreamByte ==
    /\ CanRead
    /\ exercise' = AfterRead("byte", 1, ByteStream_byte(exercise.input.data, exercise.input.offset))
    /\ UNCHANGED <<pc, output_format>>
    /\ UNCHANGED beside
StreamInteger ==
    /\ CanRead
    /\ WithinI32(output_format.integer_width)
    /\ exercise' = AfterRead("integer", BitWidth_into(output_format.integer_width),
                             ByteStream_integer(exercise.input.data, exercise.input.offset, output_format))
    /\ UNCHANGED <<pc, output_format>>
    /\ UNCHANGED beside
StreamSizeT ==
    /\ CanRead
    /\ WithinI32(output_format.size_t_width)
    /\ exercise' = AfterRead("size_t", BitWidth_into(output_format.size_t_width),
                             ByteStream_size_t(exercise.input.data, exercise.input.offset, output_format))
    /\ UNCHANGED <<pc, output_format>>
    /\ UNCHANGED beside
StreamInstruction ==
    /\ CanRead
    /\ exercise' = AfterRead("instruction", BitWidth_into(output_format.instruction_width),
                             ByteStream_instruction(exercise.input.data, exercise.input.offset, output_format))
    /\ UNCHANGED <<pc, output_format>>
    /\ UNCHANGED beside
StreamNumber ==
    /\ CanRead
    /\ exercise' = AfterRead("number", BitWidth_into(output_format.number_width),
                             ByteStream_number_at(exercise.input.data, exercise.input.offset, output_format))
    /\ UNCHANGED <<pc, output_format>>
    /\ UNCHANGED beside
StreamSlice ==
    /\ CanRead
    /\ \E length \in 0..MaxSlice :
        exercise' = AfterRead("slice", length,
                              ByteStream_slice(exercise.input.data, exercise.input.offset, length))
    /\ UNCHANGED <<pc, output_format>>
    /\ UNCHANGED beside
StreamString ==
    /\ CanRead
    /\ WithinI32(output_format.size_t_width)
    /\ exercise' = AfterRead("string", 0,
                             ByteStream_string(exercise.input.data, exercise.input.offset, output_format))
    /\ UNCHANGED <<pc, output_format>>
    /\ UNCHANGED beside

NextStream ==
    \/ StreamByte \/ StreamInteger \/ StreamSizeT \/ StreamInstruction
    \/ StreamNumber \/ StreamSlice \/ StreamString
SpecStream == InitStream /\ [][NextStream]_vars

\* lua51::Settings::default().layout
Layout51 ==
    from_specification(<<[kind |-> "Opcode", size |-> 6], [kind |-> "A", size |-> 8],
                         [kind |-> "C", size |-> 9], [kind |-> "B", size |-> 9]>>)
\* The number of variants of lua51::Instruction
Opcodes51 == 38
\* The mode of the variant with the given index
Form(opcode) ==
    IF opcode \in {1, 5, 7, 36} THEN "Bx"
    ELSE IF opcode \in {22, 31, 32} THEN "SignedBx"
    ELSE "BC"

\* lua51::Instruction::from_byte_stream
Instruction_from_byte_stream(data, offset, fmt, l) ==
    LET read == ByteStream_instruction(data, offset, fmt)
        opcode == ValueOf(OperandLayout_get(l.opcode, read.value, FALSE).value)
    IN  IF read.outcome # "Ok" THEN read
        ELSE IF opcode >= Opcodes51 THEN Read("InvalidOpcode", opcode, read.offset)
        ELSE Read("Ok",
                  [opcode |-> opcode,
                   a |-> OperandLayout_get(l.a, read.value, FALSE).value,
                   b |-> IF Form(opcode) = "BC" THEN OperandLayout_get(l.b, read.value, FALSE).value ELSE {},
                   c |-> IF Form(opcode) = "BC" THEN OperandLayout_get(l.c, read.value, FALSE).value ELSE {},
                   bx |-> CASE Form(opcode) = "Bx" -> OperandLayout_get(l.bx, read.value, FALSE).value
                            [] Form(opcode) = "SignedBx" -> as_u64(SignedBx_get(l, read.value, FALSE).value)
                            [] OTHER -> {}],
                  read.offset)

\* lua51::Instruction::to_u64
to_u64(instruction, l) ==
    LET parts == <<OperandLayout_put(l.opcode, BitsOf(instruction.opcode), FALSE),
                   OperandLayout_put(l.a, instruction.a, FALSE)>>
                 \o CASE Form(instruction.opcode) = "Bx" -> <<OperandLayout_put(l.bx, instruction.bx, FALSE)>>
                      [] Form(instruction.opcode) = "SignedBx" ->
                            <<SignedBx_put(l, as_i64(instruction.bx), FALSE)>>
                      [] OTHER -> <<OperandLayout_put(l.b, instruction.b, FALSE),
                                    OperandLayout_put(l.c, instruction.c, FALSE)>>
        failure == FirstFailure(parts)
    IN  IF failure.outcome # "Ok" THEN failure
        ELSE Ok(UNION {parts[k].value : k \in DOMAIN parts})

Constant(kind, payload) == [kind |-> kind, payload |-> payload]
LocalVariable(name, start_program_counter, end_program_counter) ==
    [name |-> name, start_program_counter |-> start_program_counter,
     end_program_counter |-> end_program_counter]

\* One iteration of the loop of get_constants
get_constant(data, offset, fmt) ==
    LET constant_type == ByteStream_byte(data, offset)
    IN  IF constant_type.outcome # "Ok" THEN constant_type
        ELSE CASE constant_type.value = 0 -> Read("Ok", Constant("Nil", <<>>), constant_type.offset)
               [] constant_type.value = 1 ->
                    LET boolean == ByteStream_byte(data, constant_type.offset)
                    IN  IF boolean.outcome # "Ok" THEN boolean
                        ELSE Read("Ok", Constant("Boolean", boolean.value # 0), boolean.offset)
               [] constant_type.value = 3 ->
                    LET number == ByteStream_number_at(data, constant_type.offset, fmt)
                    IN  IF number.outcome # "Ok" THEN number
                        ELSE Read("Ok", Constant("Number", number.value), number.offset)
               [] constant_type.value = 4 ->
                    LET string == ByteStream_string(data, constant_type.offset, fmt)
                    IN  IF string.outcome # "Ok" THEN string
                        ELSE Read("Ok", Constant("String", string.value), string.offset)
               [] OTHER -> Read("InvalidConstantType", constant_type.value, constant_type.offset)

RECURSIVE Function_from_byte_stream(_, _, _)
RECURSIVE get_one(_, _, _, _)
RECURSIVE get_each(_, _, _, _, _)

\* The only element of a set of one element: The({e(x) : x \in {v}}) is e
\* of the value of v.
The(singleton) == CHOOSE element \in singleton : TRUE

\* Reads one after the other, each from where the one before ended, up to
\* the first that fails: a run of `?` reads, or the iterations of a loop.
get_each(kinds, data, offset, fmt, read) ==
    IF kinds = <<>> THEN Read("Ok", read, offset)
    ELSE The({IF one.outcome # "Ok" THEN one
              ELSE get_each(Tail(kinds), data, one.offset, fmt, Append(read, one.value)) :
              one \in {get_one(Head(kinds), data, offset, fmt)}})

\* What the loop of get_instructions, ..., get_upvalues reads each time round
Item(kind) ==
    CASE kind = "instructions" -> "instruction"
      [] kind = "constants" -> "constant"
      [] kind = "functions" -> "function"
      [] kind = "line_info" -> "integer"
      [] kind = "local_variables" -> "local_variable"
      [] kind = "upvalues" -> "string"

\* get_instructions, ..., get_upvalues: the count, then the loop.  A count
\* as usize that exceeds the length of the data runs into InputTooShort, as
\* does the same count cut to the length of the data plus one.
get_all(kind, data, offset, fmt) ==
    The({IF count.outcome # "Ok" THEN count
         ELSE get_each([k \in 1..(IF count.value < 0 \/ count.value > Len(data) THEN Len(data) + 1
                                  ELSE count.value) |-> Item(kind)],
                       data, count.offset, fmt, <<>>) :
         count \in {ByteStream_integer(data, offset, fmt)}})

\* One read of Function::from_byte_stream, or the body of the loop of one
\* of get_instructions, get_constants, get_functions, get_line_info,
\* get_local_variables and get_upvalues
get_one(kind, data, offset, fmt) ==
    CASE kind = "byte" -> ByteStream_byte(data, offset)
      [] kind = "integer" -> ByteStream_integer(data, offset, fmt)
      [] kind = "string" -> ByteStream_string(data, offset, fmt)
      [] kind = "instruction" -> Instruction_from_byte_stream(data, offset, fmt, Layout51)
      [] kind = "constant" -> get_constant(data, offset, fmt)
      [] kind = "function" -> Function_from_byte_stream(data, offset, fmt)
      [] kind = "local_variable" ->
            The({IF fields.outcome # "Ok" THEN fields
                 ELSE Read("Ok", LocalVariable(fields.value[1], fields.value[2], fields.value[3]),
                           fields.offset) :
                 fields \in {get_each(<<"string", "integer", "integer">>, data, offset, fmt, <<>>)}})
      [] OTHER -> get_all(kind, data, offset, fmt)

\* strip_instructions
RECURSIVE strip_instructions(_, _)
strip_instructions(instructions, l) ==
    IF instructions = <<>> THEN Ok(<<>>)
    ELSE The({IF word.outcome # "Ok" THEN word
              ELSE The({IF rest.outcome # "Ok" THEN rest ELSE Ok(<<word.value>> \o rest.value) :
                        rest \in {strip_instructions(Tail(instructions), l)}}) :
              word \in {to_u64(Head(instructions), l)}})

\* The reads of Function::from_byte_stream for LuaVersion::Lua51 in their
\* order: source_file, line_defined, last_line_defined, the upvalue count,
\* parameter_count, is_variadic, maximum_stack_size, and the six lists.
FunctionReads ==
    <<"string", "integer", "integer", "byte", "byte", "byte", "byte",
      "instructions", "constants", "functions", "line_info", "local_variables", "upvalues">>

\* Function::from_byte_stream for LuaVersion::Lua51, with settings.lua51 =
\* settings.output, so that convert returns what it is given.  The upvalue
\* count that was read is not kept.
Function_from_byte_stream(data, offset, fmt) ==
    The({IF read.outcome # "Ok" THEN read
         ELSE The({IF stripped.outcome # "Ok" THEN Read(stripped.outcome, <<>>, read.offset)
                   ELSE Read("Ok",
                             [source_file |-> read.value[1],
                              line_defined |-> read.value[2],
                              last_line_defined |-> read.value[3],
                              parameter_count |-> read.value[5],
                              is_variadic |-> read.value[6],
                              maximum_stack_size |-> read.value[7],
                              instructions |-> stripped.value,
                              constants |-> read.value[9],
                              functions |-> read.value[10],
                              local_variables |-> read.value[12],
                              line_info |-> read.value[11],
                              upvalues |-> read.value[13]],
                             read.offset) :
                   stripped \in {strip_instructions(read.value[8], Layout51)}}) :
         read \in {get_each(FunctionReads, data, offset, fmt, <<>>)}})

\* ByteWriter::integer, size_t and instruction: the bytes appended
ByteWriter_integer(value, fmt) ==
    to_slice(as_u64(value), as_u64(value) \cap 0..31, fmt.integer_width, fmt.endianness)
ByteWriter_size_t(value, fmt) ==
    to_slice(as_u64(value), as_u64(value) \cap 0..31, fmt.size_t_width, fmt.endianness)
ByteWriter_instruction(word, fmt) ==
    to_slice(word, word \cap 0..31, fmt.instruction_width, fmt.endianness)

\* str::as_bytes: the UTF-8 encoding of chars below U+0100
RECURSIVE as_bytes(_)
as_bytes(chars) ==
    IF chars = <<>> THEN <<>>
    ELSE (IF Head(chars) < 128 THEN <<Head(chars)>>
          ELSE <<192 + (Head(chars) \div 64), 128 + (Head(chars) % 64)>>) \o as_bytes(Tail(chars))

\* ByteWriter::string
ByteWriter_string(chars, fmt) ==
    ByteWriter_size_t(Len(as_bytes(chars)), fmt) \o as_bytes(chars)

RECURSIVE Function_write(_, _)
RECURSIVE write_one(_, _, _)
RECURSIVE write_many(_, _, _)

\* The body of one of the for loops of Function::write
write_one(kind, item, fmt) ==
    CASE kind = "instructions" -> Ok(ByteWriter_instruction(item, fmt))
      [] kind = "constants" ->
            CASE item.kind = "Nil" -> Ok(<<0>>)
              [] item.kind = "Boolean" -> Ok(<<1, IF item.payload THEN 1 ELSE 0>>)
              [] item.kind = "Number" ->
                    LET number == ByteWriter_number(item.payload, fmt)
                    IN  IF number.outcome # "Ok" THEN number ELSE Ok(<<3>> \o number.value)
              [] OTHER -> Ok(<<4>> \o ByteWriter_string(item.payload, fmt))
      [] kind = "functions" -> Function_write(item, fmt)
      [] kind = "line_info" -> Ok(ByteWriter_integer(item, fmt))
      [] kind = "local_variables" ->
            Ok(ByteWriter_string(item.name, fmt) \o ByteWriter_integer(item.start_program_counter, fmt)
                    \o ByteWriter_integer(item.end_program_counter, fmt))
      [] kind = "upvalues" -> Ok(ByteWriter_string(item, fmt))

write_many(kind, items, fmt) ==
    IF items = <<>> THEN Ok(<<>>)
    ELSE The({IF one.outcome # "Ok" THEN one
              ELSE The({IF rest.outcome # "Ok" THEN rest ELSE Ok(one.value \o rest.value) :
                        rest \in {write_many(kind, Tail(items), fmt)}}) :
              one \in {write_one(kind, Head(items), fmt)}})

\* The length of a list, then the list
write_all(kind, items, fmt) ==
    The({IF written.outcome # "Ok" THEN written
         ELSE Ok(ByteWriter_integer(Len(items), fmt) \o written.value) :
         written \in {write_many(kind, items, fmt)}})

\* Function::write
Function_write(fn, fmt) ==
    The({IF FirstFailure(sections).outcome # "Ok" THEN FirstFailure(sections)
         ELSE Ok(ByteWriter_string(fn.source_file, fmt)
                 \o ByteWriter_integer(fn.line_defined, fmt)
                 \o ByteWriter_integer(fn.last_line_defined, fmt)
                 \o <<AsU8(Len(fn.upvalues)), fn.parameter_count, fn.is_variadic, fn.maximum_stack_size>>
                 \o sections[1].value \o sections[2].value \o sections[3].value
                 \o sections[4].value \o sections[5].value \o sections[6].value) :
         sections \in {<<write_all("instructions", fn.instructions, fmt),
                         write_all("constants", fn.constants, fmt),
                         write_all("functions", fn.functions, fmt),
                         write_all("line_info", fn.line_info, fmt),
                         write_all("local_variables", fn.local_variables, fmt),
                         write_all("upvalues", fn.upvalues, fmt)>>}})

\* unify from set_format on, for a Lua 5.1 chunk: the root prototype, the
\* test for trailing bytes, and the output
unify_root(data, offset, input_format) ==
    The({IF root.outcome # "Ok" THEN root
         ELSE IF ~is_empty(SubSeq(data, root.offset + 1, Len(data))) THEN Read("InputTooLong", <<>>, root.offset)
         ELSE root :
         root \in {Function_from_byte_stream(data, offset, input_format)}})

\* unify on the bytes of a Lua 5.1 chunk
unify_lua51(data, format, test, s) ==
    The({IF header.outcome # "Ok" THEN Err(header.outcome, <<>>)
         ELSE IF pass_through(header.format[1], format, test) THEN Ok(data)
         ELSE The({IF root.outcome # "Ok" THEN Err(root.outcome, <<>>)
                   ELSE The({IF written.outcome # "Ok" THEN written
                             ELSE Ok(s.output.binary_signature \o <<LuaVersion_into("Lua51")>>
                                     \o Format_write(format) \o written.value) :
                             written \in {Function_write(root.value, format)}}) :
                   root \in {unify_root(data, header.offset, header.format[1])}}) :
         header \in {UnifyHeader(data, s)}})

\* The chunks unify is handed: what luac lays out for a prototype.
Int32(n, fmt) == IF fmt.endianness = "Little" THEN le_bytes(BitsOf(n), 4) ELSE Reverse(le_bytes(BitsOf(n), 4))
SizeT(n, fmt) ==
    LET little == le_bytes(BitsOf(n), BitWidth_into(fmt.size_t_width))
    IN  IF fmt.endianness = "Little" THEN little ELSE Reverse(little)
Str(bytes, fmt) == SizeT(Len(bytes), fmt) \o bytes
RECURSIVE Flat(_)
Flat(parts) == IF parts = <<>> THEN <<>> ELSE Head(parts) \o Flat(Tail(parts))
List(parts, fmt) == Int32(Len(parts), fmt) \o Flat(parts)
Word(little, fmt) == IF fmt.endianness = "Little" THEN little ELSE Reverse(little)

Prototype(fmt, source, upvalue_count, code, pool, protos, lines, locals, upvalues) ==
    Str(source, fmt) \o Int32(1, fmt) \o Int32(2, fmt) \o <<upvalue_count, 0, 2, 2>>
    \o List(code, fmt) \o List(pool, fmt) \o List(protos, fmt)
    \o List(lines, fmt) \o List(locals, fmt) \o List(upvalues, fmt)

ChunkFormats ==
    {Format(0, e, "Bit32", w, "Bit32", "Bit64", FALSE) : e \in {"Little", "Big"}, w \in {"Bit32", "Bit64"}}
\* @a, and a name with an e acute in UTF-8
ChunkSources == {<<64, 97, 0>>, <<195, 169, 0>>}
\* RETURN 0 1, LOADK 0 0, JMP 0 and a word with opcode 63
ChunkCode(fmt) ==
    {<<>>, <<Word(<<30, 0, 128, 0>>, fmt)>>, <<Word(<<1, 0, 0, 0>>, fmt), Word(<<30, 0, 128, 0>>, fmt)>>,
     <<Word(<<22, 192, 255, 127>>, fmt)>>, <<Word(<<63, 0, 0, 0>>, fmt)>>}
\* nil, true, a boolean of 2, 9.0, "a", a Latin-1 e acute, and a tag of 5
ChunkPools(fmt) ==
    {<<>>, <<<<0>>>>, <<<<1, 1>>>>, <<<<1, 2>>>>,
     <<<<3>> \o Word(<<0, 0, 0, 0, 0, 0, 34, 64>>, fmt)>>,
     <<<<4>> \o Str(<<97, 0>>, fmt)>>, <<<<4>> \o Str(<<233, 0>>, fmt)>>, <<<<5>>>>}
\* No upvalue, one upvalue whose name was stripped, one upvalue with its name
ChunkUpvalues(fmt) == {<<0, <<>>>>, <<1, <<>>>>, <<1, <<Str(<<117, 0>>, fmt)>>>>}
\* A chunk with the given root prototype and what follows it
Chunk(fmt, source, upvalue, code, pool, nested, debug, trailing) ==
    LuaSignature \o <<81>> \o Format_write(fmt)
    \o Prototype(fmt, source, upvalue[1], code, pool,
                  IF nested THEN <<Prototype(fmt, <<>>, 0, <<>>, <<>>, <<>>, <<>>, <<>>, <<>>)>> ELSE <<>>,
                  IF debug THEN <<Int32(1, fmt)>> ELSE <<>>,
                  IF debug THEN <<Str(<<120, 0>>, fmt) \o Int32(0, fmt) \o Int32(1, fmt)>> ELSE <<>>,
                  upvalue[2])
    \o trailing
\* Every source, upvalue list and constant around one RETURN, and every
\* code with and without a nested prototype, debug information and a
\* trailing byte.
Chunks(fmt) ==
    {Chunk(fmt, source, upvalue, <<Word(<<30, 0, 128, 0>>, fmt)>>, pool, FALSE, FALSE, <<>>) :
        source \in ChunkSources, upvalue \in ChunkUpvalues(fmt), pool \in ChunkPools(fmt)}
    \cup {Chunk(fmt, <<64, 97, 0>>, <<0, <<>>>>, code, <<>>, nested, debug, trailing) :
        code \in ChunkCode(fmt), nested \in BOOLEAN, debug \in BOOLEAN, trailing \in {<<>>, <<0>>}}

InitChunk ==
    /\ unified = NoUnified
    /\ version = "None"
    /\ function = Function(<<>>, <<>>, <<>>, 2, 0, 0)
    /\ settings = Settings(1, 2, 2)
    /\ builder = EmptyBuilder
    /\ constants = <<>>
    /\ maximum_stack_size = 2
    /\ is_variadic = 0
    /\ index = 0
    /\ pc = "chunk"
    /\ result = NoResult
    /\ calls = <<>>
    /\ specification = <<>>
    /\ instruction_layout = NoLayout
    /\ overflow_checks = FALSE
    /\ input_bytes = [header |-> <<>>, trailing |-> <<>>]
    /\ cfg_test \in BOOLEAN
    /\ \E fmt \in ChunkFormats :
        /\ output_format \in {fmt, [fmt EXCEPT !.endianness = IF @ = "Little" THEN "Big" ELSE "Little"]}
        /\ \E chunk \in Chunks(fmt) : exercise = Exercised("unify", "", chunk, NoCall, NoCall)

\* unify(input_bytes, output_format, settings)
UnifyChunk ==
    /\ pc = "chunk"
    /\ \E header \in {UnifyHeader(exercise.input, settings)} :
        exercise' = [exercise EXCEPT
            !.first = IF header.outcome # "Ok" THEN Err(header.outcome, <<>>)
                      ELSE [outcome |-> unify_root(exercise.input, header.offset, header.format[1]).outcome,
                            value |-> header.format],
            !.second = unify_lua51(exercise.input, output_format, cfg_test, settings)]
    /\ pc' = "unified"
    /\ UNCHANGED beside

SpecChunk == InitChunk /\ [][UnifyChunk]_vars

(***************************************************************************)
(* Properties.                                                             *)
(***************************************************************************)
Done == pc = "done"
Returned == Done /\ result.outcome = "Ok"

\* The positions (0-based) of the output.
Positions == 0..(Len(builder.contexts) - 1)
Context(j) == builder.contexts[j + 1]
Output(j) == result.instructions[j + 1]

\* The appended (not inserted) output instructions of input instruction t.
AppendedFor(t) == {j \in Positions : Context(j).emitted_for = t /\ ~Context(j).inserted}
\* The position of the first output instruction emitted for input instruction t.
FirstFor(t) == CHOOSE j \in AppendedFor(t) : \A k \in AppendedFor(t) : j <= k

\* The jumps finalize retargets.
Retargeted == {j \in Positions : IsJump(Context(j).instruction) /\ ~Context(j).is_fixed}
\* The input instruction the jump at output position j pointed at.
OldTarget(j) == Context(j).emitted_for + 1 + function.instructions[Context(j).emitted_for + 1].mode.bx

\* C1: after finalize every retargeted jump lands on the first output
\* instruction of the input instruction it pointed at, shifted by final_offset.
C1_JumpTargetsPreserved ==
    Returned =>
        \A j \in Retargeted :
            /\ AppendedFor(OldTarget(j)) # {}
            /\ j + 1 + Output(j).mode.bx = FirstFor(OldTarget(j)) + Context(j).final_offset

\* The number of elements of the table constructor that was read.
ElementCount == Cardinality({k \in 1..Len(function.instructions) : function.instructions[k].op = "LoadK"})

\* C2: upcasting the Lua 5.0 table constructor of n elements returns exactly the
\* Lua 5.1 table constructor of n elements paged by the output fields_per_flush.
C2_SetListUpcast ==
    Done => /\ result.outcome = "Ok"
            /\ result.instructions = output_setlist(ElementCount, settings)

\* finalize was called: the loop of upcast came to its end.
Finalized == Done /\ index = ZipLen /\ (is_variadic = 0 \/ Len(builder.contexts) > 0)

\* new_stack_size of the instruction at builder position j.
StackSize(j) == stack_destination(Context(j).instruction).end + 1
\* The positions whose destination reaches beyond the output stack limit.
Offending ==
    {j \in Positions : /\ stack_destination(Context(j).instruction).some
                        /\ StackSize(j) > settings.output.stack_limit}
FirstOffending == CHOOSE j \in Offending : \A k \in Offending : j <= k

\* C3: a returned prototype has maximum_stack_size at most the output stack
\* limit and above every destination slot; finalize fails with StackTooLarge(s)
\* for the first instruction whose s = last destination slot + 1 exceeds the limit.
C3_StackWithinLimit ==
    /\ Returned =>
           /\ maximum_stack_size <= settings.output.stack_limit
           /\ \A j \in 1..Len(result.instructions) :
                  stack_destination(result.instructions[j]).some =>
                      stack_destination(result.instructions[j]).end < maximum_stack_size
    /\ (Finalized /\ Offending # {}) =>
           /\ result.outcome = "StackTooLarge"
           /\ result.value = StackSize(FirstOffending)

\* convert returned its input as it was (equal fields_per_flush).
Untouched ==
    version = "Lua51" /\ settings.lua51.fields_per_flush = settings.output.fields_per_flush
\* The input instructions that no loop iteration has processed.
Lost == IF Untouched THEN {} ELSE index..(Len(function.instructions) - 1)

\* C4: the builder keeps one line_info entry per instruction after every call,
\* and a returned prototype has one line_info entry per instruction and has
\* lost no input instruction (after upcast and after either path of convert).
C4_LineInfoComplete ==
    /\ Len(builder.line_info) = Len(builder.contexts)
    /\ Returned => /\ Len(result.line_info) = Len(result.instructions)
                   /\ Lost = {}

\* Every retargeted jump of the output lands on the first output instruction of
\* the input instruction it pointed at, shifted by its final_offset.
JumpsReachTargets ==
    \A j \in Retargeted :
        /\ AppendedFor(OldTarget(j)) # {}
        /\ j + 1 + Output(j).mode.bx = FirstFor(OldTarget(j)) + Context(j).final_offset

\* The four instructions that materialise the arg table of a function with p
\* parameters.
Prologue(p) ==
    <<Instruction("NewTable", p + 1, BC(Unused, Unused)),
      Instruction("VarArg", p + 2, BC(Generic(0), Unused)),
      Instruction("SetList", p + 1, BC(Generic(0), Generic(1))),
      Instruction("Move", p, BC(Register(p + 1), Unused))>>

\* The output positions that the loop of upcast created.
Body == {j \in Positions : Context(j).emitted_for >= 0}

\* C10: a Lua 5.0 function with a non-zero is_variadic byte starts with the
\* four prologue instructions, its body follows with every jump on its original
\* target, and its byte is the input byte OR 2; with a zero byte nothing is
\* prepended and the byte stays 0.
C10_VariadicPrologue ==
    (version = "Lua50" /\ Returned) =>
        IF function.is_variadic # 0
            THEN /\ Len(result.instructions) >= 4
                 /\ SubSeq(result.instructions, 1, 4) = Prologue(function.parameter_count)
                 /\ Body = 4..(Len(result.instructions) - 1)
                 /\ JumpsReachTargets
                 /\ is_variadic % 4 \in {2, 3}
                 /\ is_variadic - 2 \in {function.is_variadic, function.is_variadic - 2}
            ELSE /\ Body = Positions
                 /\ is_variadic = 0

\* unify has returned.
UnifyReturned == pc = "returned"
\* The header as unify reads it.
InputHeader == UnifyHeader(input_bytes.header, settings)
\* The header of a chunk written for the output settings and format.
OutputHeader == settings.output.binary_signature \o <<81>> \o Format_write(output_format)

\* C5: whenever unify returns Ok, the returned bytes start with the output
\* signature, the version byte 0x51 and the bytes of the output format.
C5_OutputHeader ==
    (UnifyReturned /\ unified.outcome = "Ok") =>
        /\ Len(unified.header) >= Len(OutputHeader)
        /\ SubSeq(unified.header, 1, Len(OutputHeader)) = OutputHeader

\* The Format parsed from the input header equals the requested output format.
FormatsMatch == InputHeader.outcome = "Ok" /\ InputHeader.format[1] = output_format

\* C6: if the Format parsed from the input header equals the output format,
\* unify returns Ok with exactly the input bytes.
C6_PassThrough ==
    (UnifyReturned /\ FormatsMatch) =>
        /\ unified.outcome = "Ok"
        /\ unified.header = input_bytes.header
        /\ unified.root = <<function>>
        /\ unified.trailing = input_bytes.trailing

\* C6, for the build that ships: if the Format parsed from the input header
\* equals the output format and the crate is not compiled for its own tests
\* (cfg!(test) is false), unify returns Ok with exactly the input bytes.
C6_PassThroughShipped ==
    (UnifyReturned /\ FormatsMatch /\ ~cfg_test) =>
        /\ unified.outcome = "Ok"
        /\ unified.header = input_bytes.header
        /\ unified.root = <<function>>
        /\ unified.trailing = input_bytes.trailing

\* A Lua 5.0 chunk in the output format, followed by a further byte, came back
\* from the build that ships.
C6_Witness ==
    /\ UnifyReturned /\ FormatsMatch /\ ~cfg_test
    /\ version = "Lua50"
    /\ input_bytes.trailing # <<>>
    /\ unified.outcome = "Ok"

\* The input instruction at index t and the input instruction it points at.
Input(t) == function.instructions[t + 1]
Target(t) == t + 1 + Input(t).mode.bx
\* The indices of the input FORLOOPs with a backward offset.
BackwardForLoops ==
    {t \in 0..(Len(function.instructions) - 1) : Input(t).op = "ForLoop" /\ Input(t).mode.bx < 0}
\* The output positions created for input instruction t by insertion.
InsertedFor(t) == {j \in Positions : Context(j).emitted_for = t /\ Context(j).inserted}
\* The output positions that name constant k.
Naming(k) ==
    {j \in Positions : /\ Output(j).op \in {"LoadK", "GetGlobal", "SetGlobal"}
                       /\ Output(j).mode.bx = k}
\* Constant k did not exist in the input and is a string of the output pool.
Minted(k) ==
    /\ k >= Len(function.constants)
    /\ k < Len(constants)
    /\ constants[k + 1].type = "String"

\* C7: every backward FORLOOP a comes out as SETGLOBAL a+3,k directly before
\* the FORLOOP, with one GETGLOBAL a+3,k inserted at the loop's jump target; k
\* is freshly minted and named by these two instructions only, and the
\* finalized FORLOOP jumps exactly onto that GETGLOBAL.
C7_ForLoopUpcast ==
    Returned =>
        \A t \in BackwardForLoops :
            /\ AppendedFor(t) # {}
            /\ AppendedFor(Target(t)) # {}
            /\ LET s == FirstFor(t)
                   f == s + 1
                   a == Input(t).a
                   k == Output(s).mode.bx
               IN  /\ AppendedFor(t) = {s, f}
                   /\ Output(s) = Instruction("SetGlobal", a + 3, Bx(k))
                   /\ Output(f).op = "ForLoop" /\ Output(f).a = a
                   /\ Minted(k)
                   /\ \E g \in Positions :
                        /\ InsertedFor(t) = {g}
                        /\ Output(g) = Instruction("GetGlobal", a + 3, Bx(k))
                        /\ g + 1 = FirstFor(Target(t))
                        /\ f + 1 + Output(f).mode.bx = g
                        /\ Naming(k) = {g, s}

\* The output instructions at positions first .. first + count - 1.
OutputFrom(first, count) == [j \in 1..count |-> Output(first + j - 1)]
\* The index of the string constant str (with its trailing NUL) in the output pool.
Named(str) == Position(constants, ConstantString(str \o NUL))
\* A plain register operand of a constant-or-register slot.
Reg(r) == ConstantRegister(r, FALSE)

TForPreps == {t \in 0..(Len(function.instructions) - 1) : Input(t).op = "TForPrep"}

\* C8: every TFORPREP a comes out as the 13 instructions of the type check in
\* their order, with two distinct freshly minted constants, the inner JMP still
\* +2 after finalize and the last JMP on the target of the TFORPREP.
C8_TForPrepUpcast ==
    Returned =>
        \A t \in TForPreps :
            /\ AppendedFor(t) # {}
            /\ AppendedFor(Target(t)) # {}
            /\ \A str \in {"type", "table", "next"} : Contains(constants, ConstantString(str \o NUL))
            /\ LET s == FirstFor(t)
                   a == Input(t).a
                   k1 == Output(s).mode.bx
                   k2 == Output(s + 1).mode.bx
               IN  /\ AppendedFor(t) = s..(s + 12)
                   /\ InsertedFor(t) = {}
                   /\ Minted(k1) /\ Minted(k2) /\ k1 # k2
                   /\ OutputFrom(s, 12) =
                        <<Instruction("SetGlobal", a + 1, Bx(k1)),
                          Instruction("SetGlobal", a + 2, Bx(k2)),
                          Instruction("GetGlobal", a + 1, Bx(Named("type"))),
                          Instruction("Move", a + 2, BC(Register(a), Unused)),
                          Instruction("Call", a + 1, BC(Generic(2), Generic(2))),
                          Instruction("LoadK", a + 2, Bx(Named("table"))),
                          Instruction("Equals", 0, BC(Reg(a + 1), Reg(a + 2))),
                          Instruction("Jump", a, SignedBx(2)),
                          Instruction("SetGlobal", a, Bx(k1)),
                          Instruction("GetGlobal", a, Bx(Named("next"))),
                          Instruction("GetGlobal", a + 1, Bx(k1)),
                          Instruction("GetGlobal", a + 2, Bx(k2))>>
                   /\ Output(s + 12).op = "Jump" /\ Output(s + 12).a = a
                   /\ s + 13 + Output(s + 12).mode.bx = FirstFor(Target(t))

TForLoops == {t \in 0..(Len(function.instructions) - 1) : Input(t).op = "TForLoop"}
\* The plain jumps of the output that pointed at input instruction t.
JumpsTo(t) == {j \in Retargeted : Output(j).op = "Jump" /\ OldTarget(j) = t}

\* MOVE a+i+2 <- cb+i for i = c down to 0
MovesDown(a, cb, c) == [j \in 1..(c + 1) |-> Instruction("Move", a + (c + 1 - j) + 2, BC(Register(cb + (c + 1 - j)), Unused))]

\* C9: a TFORLOOP a with C = 0 comes out as TForLoop a, BC(Unused, Generic(1));
\* with C = c > 0 as the c + 7 instructions of the explicit call at cb = a + c + 3;
\* every jump that pointed at the TFORLOOP lands on the first of them.
C9_TForLoopUpcast ==
    Returned =>
        \A t \in TForLoops :
            /\ AppendedFor(t) # {}
            /\ LET s == FirstFor(t)
                   a == Input(t).a
                   c == Input(t).mode.c.value
                   cb == a + c + 3
               IN  /\ InsertedFor(t) = {}
                   /\ \A j \in JumpsTo(t) : j + 1 + Output(j).mode.bx = s
                   /\ IF c = 0
                        THEN /\ AppendedFor(t) = {s}
                             /\ Output(s) = Instruction("TForLoop", a, BC(Unused, Generic(1)))
                        ELSE /\ AppendedFor(t) = s..(s + c + 6)
                             /\ Contains(constants, ConstantNil)
                             /\ OutputFrom(s, c + 7) =
                                    <<Instruction("Move", cb, BC(Register(a), Unused)),
                                      Instruction("Move", cb + 1, BC(Register(a + 1), Unused)),
                                      Instruction("Move", cb + 2, BC(Register(a + 2), Unused)),
                                      Instruction("Call", cb, BC(Generic(3), Generic(c + 2)))>>
                                    \o MovesDown(a, cb, c)
                                    \o <<Instruction("LoadK", cb, Bx(Position(constants, ConstantNil))),
                                         Instruction("Equals", 0, BC(Reg(a + 2), Reg(cb)))>>

\* C11: converting the Lua 5.1 table constructor of n elements paged by the
\* input fields_per_flush returns exactly the table constructor of n elements
\* paged by the (differing) output fields_per_flush.
C11_SetListConvert ==
    (Done /\ version = "Lua51"
          /\ settings.lua51.fields_per_flush # settings.output.fields_per_flush) =>
        /\ result.outcome = "Ok"
        /\ result.instructions = output_setlist(ElementCount, settings)


\* The calls made so far, by position.
Made == 1..Len(calls)
\* The largest index a constant may have in the output.
MaximumConstantIndex == get_maximum_constant_index(settings.output)
\* The constant a lookup call looks for.
Wanted(m) ==
    IF calls[m].op = "constant_nil" THEN ConstantNil ELSE ConstantString(calls[m].argument \o NUL)
\* The call has to append: it mints, or what it looks for is not in the pool.
HasToAppend(m) == calls[m].op = "create_unique" \/ ~Contains(calls[m].before, Wanted(m))

\* C12: every constant index returned by constant_for_str, constant_nil or
\* create_unique is at most the output's maximum constant index, and a call that
\* would have to append at a larger index fails with TooManyConstants(that
\* index) and leaves the pool unchanged.
C12_ConstantIndexBounded ==
    \A m \in Made :
        /\ calls[m].outcome = "Ok" => calls[m].index <= MaximumConstantIndex
        /\ (HasToAppend(m) /\ Len(calls[m].before) > MaximumConstantIndex) =>
                /\ calls[m].outcome = "TooManyConstants"
                /\ calls[m].index = Len(calls[m].before)
                /\ calls[m].after = calls[m].before

\* The create_unique calls that returned an index.
Mints == {m \in Made : calls[m].op = "create_unique" /\ calls[m].outcome = "Ok"}
\* The constant the call left at the end of the pool.
Last(m) == calls[m].after[Len(calls[m].after)]
\* The constant is the name for program counter p with the smallest free k.
SmallestFree(constant, pool, p) ==
    \E k \in 0..(MaxPool + MaxCalls) :
        /\ constant = ConstantString("__%lunify%__temp" \o ToString(p) \o "_" \o ToString(k) \o NUL)
        /\ ~Contains(pool, constant)
        /\ \A j \in 0..(k - 1) :
              Contains(pool, ConstantString("__%lunify%__temp" \o ToString(p) \o "_" \o ToString(j) \o NUL))

\* create_unique call m minted the name its program counter asks for and
\* returned the index of that name.
Minted13(m) ==
    /\ calls[m].outcome = "Ok"
    /\ calls[m].after = Append(calls[m].before, Last(m))
    /\ \E p \in 0..1 : ToString(p) = calls[m].argument /\ SmallestFree(Last(m), calls[m].before, p)
    /\ calls[m].index = Len(calls[m].before)
    /\ calls[m].after[calls[m].index + 1] = Last(m)
    /\ ~Contains(calls[m].before, Last(m))
    /\ ~Contains(function.constants, Last(m))
\* No two returned indices and no two minted names are equal.
AllDistinct13 ==
    \A m, n \in Mints : m # n => calls[m].index # calls[n].index /\ Last(m) # Last(n)

\* C13: create_unique(pc) appends exactly one string constant
\* __%lunify%__temp{pc}_{k} plus NUL with the smallest k that is not in the pool
\* yet, and returns its index, the pool length before the call; over any run of
\* calls no two returned indices and no two minted names are equal, and no
\* minted name equals a constant that was in the pool already.
C13_CreateUnique ==
    /\ \A m \in Made : calls[m].op = "create_unique" => Minted13(m)
    /\ AllDistinct13

\* C13, with the case of a full pool: create_unique(pc) does all of the above
\* whenever the pool length is at most the output's maximum constant index, and
\* otherwise returns TooManyConstants(pool length) and appends nothing.
C13_CreateUniqueWithinLimit ==
    /\ \A m \in Made : calls[m].op = "create_unique" =>
            IF Len(calls[m].before) <= MaximumConstantIndex
                THEN Minted13(m)
                ELSE /\ calls[m].outcome = "TooManyConstants"
                     /\ calls[m].index = Len(calls[m].before)
                     /\ calls[m].after = calls[m].before
    /\ AllDistinct13

\* Three names were minted for program counter 0 in a pool that already held
\* the first candidate name.
C13_Witness ==
    /\ Contains(function.constants, ConstantString(UniqueName(0, 0)))
    /\ Mints = 1..3
    /\ \A m \in Mints : calls[m].argument = "0"

\* The calls of constant_for_str and constant_nil.
Lookups == {m \in Made : calls[m].op \in {"constant_for_str", "constant_nil"}}
\* Call m found what it looked for: the first equal constant, pool unchanged.
Found14(m) ==
    /\ calls[m].outcome = "Ok"
    /\ calls[m].index < Len(calls[m].before)
    /\ calls[m].before[calls[m].index + 1] = Wanted(m)
    /\ \A j \in 0..(calls[m].index - 1) : calls[m].before[j + 1] # Wanted(m)
    /\ calls[m].after = calls[m].before
\* Call m appended what it looked for and returned its index.
Appended14(m) ==
    /\ calls[m].outcome = "Ok"
    /\ calls[m].after = Append(calls[m].before, Wanted(m))
    /\ calls[m].index = Len(calls[m].before)
\* A call and the next one are the same lookup: same result, one append at most.
TwiceInARow14 ==
    \A m \in Lookups :
        (m + 1 \in Lookups /\ calls[m + 1].op = calls[m].op /\ calls[m + 1].argument = calls[m].argument) =>
            /\ calls[m + 1].outcome = calls[m].outcome
            /\ calls[m + 1].index = calls[m].index
            /\ calls[m + 1].after = calls[m].after
            /\ Len(calls[m + 1].after) <= Len(calls[m].before) + 1

\* C14: constant_for_str(s) and constant_nil() return the index of the first
\* existing equal constant and leave the pool unchanged when one exists;
\* otherwise they append exactly one constant and return its index.  Calling
\* either one twice in a row with the same argument returns the same index both
\* times and grows the pool at most once.
C14_LookupOrAppend ==
    /\ \A m \in Lookups :
        IF Contains(calls[m].before, Wanted(m)) THEN Found14(m) ELSE Appended14(m)
    /\ TwiceInARow14

\* C14, with the case of a full pool: as above, except that a lookup that finds
\* nothing in a pool longer than the output's maximum constant index returns
\* TooManyConstants(pool length) and appends nothing.
C14_LookupOrAppendWithinLimit ==
    /\ \A m \in Lookups :
        IF Contains(calls[m].before, Wanted(m)) THEN Found14(m)
        ELSE IF Len(calls[m].before) <= MaximumConstantIndex THEN Appended14(m)
        ELSE /\ calls[m].outcome = "TooManyConstants"
             /\ calls[m].index = Len(calls[m].before)
             /\ calls[m].after = calls[m].before
    /\ TwiceInARow14

\* constant_for_str("type") was called twice in a row on a pool without "type":
\* the first call appended it, the second one found it; then constant_nil found
\* the nil of the pool behind another constant.
C14_Witness ==
    /\ Len(calls) = 3
    /\ calls[1].op = "constant_for_str" /\ calls[2].op = "constant_for_str"
    /\ calls[1].argument = "type" /\ calls[2].argument = "type"
    /\ ~Contains(calls[1].before, Wanted(1))
    /\ calls[1].outcome = "Ok" /\ calls[2].outcome = "Ok"
    /\ calls[3].op = "constant_nil" /\ calls[3].outcome = "Ok" /\ calls[3].index = 1

\* The bytes of the input behind the signature, or <<-1>> without a signature
\* (no byte is -1).
Unsigned(data, s) ==
    LET starts(signature) == Len(data) >= Len(signature) /\ SubSeq(data, 1, Len(signature)) = signature
        behind(signature) == SubSeq(data, Len(signature) + 1, Len(data))
    IN  IF starts(s.lua50.binary_signature) THEN behind(s.lua50.binary_signature)
        ELSE IF starts(s.lua51.binary_signature) THEN behind(s.lua51.binary_signature)
        ELSE <<0 - 1>>

\* The fields behind the version byte in reading order: the error a wrong
\* value gives ("" where any value is accepted) and the accepted values.
HeaderFields(lua_version) ==
    LET endianness == [error |-> "InvaildEndianness", length |-> 1, accepted |-> {<<0>>, <<1>>}]
        width(error) == [error |-> error, length |-> 1, accepted |-> {<<4>>, <<8>>}]
        any == [error |-> "", length |-> 1, accepted |-> {}]
        widths == <<width("UnsupportedIntegerWidth"), width("UnsupportedSizeTWidth"),
                    width("UnsupportedInstructionWidth")>>
    IN  IF lua_version = 81
            THEN <<any, endianness>> \o widths \o <<width("UnsupportedNumberWidth"), any>>
            ELSE <<endianness>> \o widths
                    \o <<[error |-> "UnsupportedInstructionFormat", length |-> 4, accepted |-> {<<6, 8, 9, 9>>}],
                         width("UnsupportedNumberWidth")>>

\* The error of the first field, from position at (0-based) on, that is cut
\* short or holds a value that is not accepted; "Ok" when there is none.
RECURSIVE FirstWrong(_, _, _)
FirstWrong(fields, bytes, at) ==
    IF fields = <<>> THEN [outcome |-> "Ok", value |-> <<>>, at |-> at]
    ELSE LET field == Head(fields)
             read == SubSeq(bytes, at + 1, at + field.length)
         IN  IF at + field.length > Len(bytes) THEN [outcome |-> "InputTooShort", value |-> <<>>, at |-> at]
             ELSE IF field.error # "" /\ read \notin field.accepted
                THEN [outcome |-> field.error, value |-> read, at |-> at]
             ELSE FirstWrong(Tail(fields), bytes, at + field.length)

\* The error the header of the input has to give, "Ok" when it has to be
\* accepted.
HeaderError ==
    LET bytes == Unsigned(input_bytes.header, settings)
        fields == FirstWrong(HeaderFields(bytes[1]), bytes, 1)
    IN  IF bytes = <<0 - 1>> THEN [outcome |-> "IncorrectSignature", value |-> <<>>]
        ELSE IF bytes = <<>> THEN [outcome |-> "InputTooShort", value |-> <<>>]
        ELSE IF bytes[1] \notin {80, 81} THEN [outcome |-> "UnsupportedVersion", value |-> <<bytes[1]>>]
        ELSE IF fields.outcome # "Ok" THEN [outcome |-> fields.outcome, value |-> fields.value]
        \* the number itself: a byte in Lua 5.1, the test number in Lua 5.0
        ELSE IF bytes[1] = 80 /\ fields.at + bytes[fields.at] > Len(bytes)
            THEN [outcome |-> "InputTooShort", value |-> <<>>]
        ELSE [outcome |-> "Ok", value |-> <<>>]

\* The errors a header can give.
HeaderErrors ==
    {"IncorrectSignature", "UnsupportedVersion", "InvaildEndianness", "UnsupportedIntegerWidth",
     "UnsupportedSizeTWidth", "UnsupportedInstructionWidth", "UnsupportedInstructionFormat",
     "UnsupportedNumberWidth", "InputTooShort"}

\* C15: unify checks the header in a fixed order (signature, version,
\* endianness, integer, size_t and instruction width, for Lua 5.0 the instruction
\* format, number width) and returns the error of the first check that fails
\* with the byte(s) read, whatever the later bytes are; a header that ends before
\* a field gives InputTooShort; a header without any of this is not rejected.
\* (The endianness error is the variant error.rs spells InvaildEndianness.)
C15_HeaderErrors ==
    UnifyReturned =>
        IF HeaderError.outcome # "Ok"
            THEN unified.outcome = HeaderError.outcome /\ unified.value = HeaderError.value
            ELSE unified.outcome \notin HeaderErrors

\* A Lua 5.0 header with a wrong integer width, a wrong instruction format and
\* a wrong number width was rejected.
C15_Witness ==
    /\ UnifyReturned
    /\ unified.outcome = "UnsupportedIntegerWidth"
    /\ \E e \in 1..2, sw \in 4..5, cw \in 4..5 :
            Unsigned(input_bytes.header, settings) = <<80, e, 5, sw, cw, 6, 9, 9, 8, 5>> \o TestNumber

\* C16: if any byte remains in the input after the root function prototype has
\* been parsed, unify returns InputTooLong.  (The pass-through of C6 returns
\* before the root prototype is parsed.)
C16_InputTooLong ==
    (UnifyReturned /\ result.outcome = "Ok" /\ input_bytes.trailing # <<>>) =>
        unified.outcome = "InputTooLong"

\* A Lua 5.0 chunk whose root prototype was upcast, followed by a further
\* byte, was rejected.
C16_Witness ==
    /\ UnifyReturned
    /\ version = "Lua50"
    /\ result.outcome = "Ok" /\ Len(result.instructions) > 0
    /\ input_bytes.trailing = <<0>>
    /\ unified.outcome = "InputTooLong"

LaidOut == pc = "laid out"
\* The places of the specification that list the given kind.
PlacesOf(kind) == {k \in DOMAIN specification : specification[k].kind = kind}
PlaceOf(kind) == CHOOSE k \in PlacesOf(kind) : TRUE
SizeOf(kind) == specification[PlaceOf(kind)].size
\* The sum of the sizes of the entries listed before place k.
RECURSIVE SizesBefore(_)
SizesBefore(k) == IF k <= 1 THEN 0 ELSE SizesBefore(k - 1) + specification[k - 1].size
OneOfEach == \A kind \in {"Opcode", "A", "B", "C"} : Cardinality(PlacesOf(kind)) = 1
Accepted17 ==
    /\ OneOfEach
    /\ SizeOf("Opcode") \in 6..31
    /\ SizeOf("A") \in 7..31
    /\ SizeOf("B") \in 8..31
    /\ SizeOf("C") \in 8..31
    /\ Abs(PlaceOf("B") - PlaceOf("C")) = 1
Placed17(operand, kind) ==
    operand.size = SizeOf(kind) /\ operand.position = SizesBefore(PlaceOf(kind))

\* C17: from_specification returns Ok exactly when the four entries are one
\* each of Opcode, A, B and C with sizes in [6,31], [7,31], [8,31] and [8,31]
\* and B and C are next to each other, and InvalidInstructionLayout in every
\* other case; when it returns Ok every field starts at the sum of the sizes
\* listed before it, bx starts at the lower of B and C and is as wide as
\* both, and the signed bias is 2^(bx.size - 1) - 1.
C17_FromSpecification ==
    LaidOut =>
        /\ instruction_layout.outcome = (IF Accepted17 THEN "Ok" ELSE "InvalidInstructionLayout")
        /\ instruction_layout.outcome = "Ok" =>
            /\ Placed17(instruction_layout.opcode, "Opcode")
            /\ Placed17(instruction_layout.a, "A")
            /\ Placed17(instruction_layout.b, "B")
            /\ Placed17(instruction_layout.c, "C")
            /\ instruction_layout.bx.position
                    = Min(instruction_layout.b.position, instruction_layout.c.position)
            /\ instruction_layout.bx.size = instruction_layout.b.size + instruction_layout.c.size
            /\ instruction_layout.signed_offset = Ones(instruction_layout.bx.size - 1)

\* The layout of the test from_specification is accepted, with bias 131071.
C17_Witness ==
    /\ LaidOut
    /\ specification = <<[kind |-> "Opcode", size |-> 6], [kind |-> "C", size |-> 9],
                         [kind |-> "B", size |-> 9], [kind |-> "A", size |-> 8]>>
    /\ instruction_layout.outcome = "Ok"
    /\ instruction_layout.a.position = 24
    /\ instruction_layout.signed_offset = Ones(17)

\* The bit range of an operand, and the part of it an instruction word has.
BitRange(operand) == operand.position..(operand.position + operand.size - 1)
InWord(operand) == BitRange(operand) \subseteq BitPositions
Exercising(op) == pc = "exercised" /\ exercise.op = op
ExercisedOperand == instruction_layout[exercise.field]
Bias == as_i64(instruction_layout.signed_offset)

GetPutKeeps18 ==
    Exercising("get_put") =>
        exercise.second = Ok(exercise.input \cap BitRange(ExercisedOperand))
PutGetKeeps18 ==
    Exercising("put_get") =>
        /\ exercise.input \subseteq Ones(ExercisedOperand.size) =>
                exercise.first.outcome = "Ok" /\ exercise.second = Ok(exercise.input)
        /\ exercise.first.outcome = "ValueTooBigForOperand"
                <=> ~(exercise.input \subseteq Ones(ExercisedOperand.size))
SignedKeeps18 ==
    Exercising("signed_put_get") =>
        IF exercise.input \in (0 - Bias)..(Bias + 1)
        THEN exercise.first.outcome = "Ok" /\ exercise.second = Ok(exercise.input)
        ELSE exercise.first.outcome # "Ok"

\* C18: for every accepted layout and every field, put(get(w)) is w
\* restricted to the field's bit range, get(put(v)) = v for every v up to
\* 2^size - 1, put fails with ValueTooBigForOperand exactly for larger v,
\* and signed Bx keeps every v in [-bias, bias + 1] and fails outside.
C18_OperandRoundTrip == GetPutKeeps18 /\ PutGetKeeps18 /\ SignedKeeps18

\* The value of a number whatever its tag: a sign, an odd mantissa and a
\* power of two.
ValueOfNumber(number) ==
    IF number.tag = "Float" THEN number.float
    ELSE IF 63 \in number.bits THEN Normalised(TRUE, Negate(number.bits), 0)
    ELSE Normalised(FALSE, number.bits, 0)
\* The value is an integer of the signed range of the given number of bits.
InSigned(v, bits) ==
    \/ v.class = "zero"
    \/ /\ v.class = "finite"
       /\ v.exponent >= 0
       /\ \/ Highest(v.mantissa) + v.exponent <= bits - 2
          \/ v.negative /\ v.mantissa = {0} /\ v.exponent = bits - 1
\* The value is a float of the given precision and largest exponent.
InFloat(v, precision, largest) ==
    \/ v.class # "finite"
    \/ /\ Highest(v.mantissa) + 1 <= precision
       /\ Highest(v.mantissa) + v.exponent \in (1 - largest)..largest
Representable(number, format) ==
    LET v == ValueOfNumber(number)
    IN  IF format.is_number_integral
        THEN InSigned(v, IF format.number_width = "Bit32" THEN 32 ELSE 64)
        ELSE IF format.number_width = "Bit32" THEN InFloat(v, 24, 127) ELSE InFloat(v, 53, 1023)
NumberWritten == pc \in {"written", "read back"} /\ exercise.op = "number"

\* C19: writing a number fails with FloatPrecisionLoss or IntegerOverflow
\* whenever the configured width and integrality cannot hold its value,
\* what was written reads back as the same value, and an integer outside
\* the i32 range written as a 32 bit integral number gives IntegerOverflow.
C19_NumberWrite ==
    NumberWritten =>
        /\ ~Representable(exercise.input, output_format) =>
                exercise.first.outcome \in {"FloatPrecisionLoss", "IntegerOverflow"}
        /\ pc = "read back" =>
                /\ exercise.second.outcome = "Ok"
                /\ ValueOfNumber(exercise.second.value) = ValueOfNumber(exercise.input)
        /\ ( /\ exercise.input.tag = "Integer"
             /\ ~InSigned(ValueOfNumber(exercise.input), 32)
             /\ output_format.is_number_integral
             /\ output_format.number_width = "Bit32" ) =>
                exercise.first.outcome = "IntegerOverflow"

\* A Lua 5.1 chunk went through unify in the test build, parsed without
\* error, in the output format and with the output settings.
Reserialized ==
    /\ pc = "unified" /\ exercise.op = "unify"
    /\ cfg_test
    /\ exercise.first.outcome = "Ok"
    /\ exercise.first.value = <<output_format>>
    /\ settings.lua51 = settings.output

\* C20: with the pass-through shortcut disabled, every Lua 5.1 input that
\* parses without error, in the output format and with the output
\* settings, is re-serialized to exactly the input bytes.
C20_RoundTrip == Reserialized => exercise.second = Ok(exercise.input)

\* The positions of the SetLists of the output, and those up to position j.
SetLists == {j \in 1..Len(result.instructions) : result.instructions[j].op = "SetList"}
SetListsUpTo(j) == {k \in SetLists : k <= j}
\* The elements the SetLists of the output store together.
RECURSIVE Stored(_)
Stored(positions) ==
    IF positions = {} THEN 0
    ELSE LET j == CHOOSE k \in positions : TRUE
         IN  result.instructions[j].mode.b.value + Stored(positions \ {j})

\* C21: every SetList emitted for a closed table page has 1 <= B <= output
\* fields_per_flush and C equal to the 1-based output page of its elements,
\* and the SetLists of the constructor together store the elements the input
\* stored.
C21_ClosedPages ==
    Returned =>
        /\ \A j \in SetLists :
            /\ result.instructions[j].mode.b.value \in 1..settings.output.fields_per_flush
            /\ result.instructions[j].mode.c.value = Cardinality(SetListsUpTo(j))
        /\ Stored(SetLists) = ElementCount

\* The loop of upcast stopped in the FORLOOP arm with an abort.
ForLoopAborted ==
    /\ Done /\ index < ZipLen
    /\ result.outcome = "Panic"
    /\ function.instructions[index + 1].op = "ForLoop"

\* C22: the walk of jump_destination comes to its end with the step counter
\* at 0 and every index inside the instruction list, in finalize and in
\* adjusted_jump_destination, for every builder that upcast hands them.
C22_WalkTerminates ==
    /\ Finalized => result.outcome # "Panic"
    /\ ForLoopAborted =>
           adjusted_jump_destination(builder, function.instructions[index + 1].mode.bx).outcome # "Panic"

\* C23: upcast and convert return Ok or a LunifyError; they never abort.
C23_NeverAborts == Done => result.outcome # "Panic"

\* The input is non-variadic Lua 5.0 code without FORLOOP, TFORLOOP,
\* TFORPREP, SETLIST and SETLISTO.
Plain ==
    /\ version = "Lua50"
    /\ function.is_variadic = 0
    /\ \A k \in 1..Len(function.instructions) :
        function.instructions[k].op \notin {"ForLoop", "TForLoop", "TForPrep", "SetList", "SetListO"}
\* The Lua 5.1 instruction of the same name, a, operands and jump offset.
SameNamed(i) ==
    IF i.op = "Test"
        THEN Instruction("TestSet", i.a, BC(ConstantRegister(i.mode.b.value, FALSE), i.mode.c))
        ELSE i

\* C24: upcast of a plain function returns one instruction per input
\* instruction, in order, each the same-named one with the same a, operands
\* and jump offset (TEST as TESTSET with a plain register B), and leaves
\* line_info and the constant pool as they were.
C24_OneToOne ==
    (Done /\ Plain) =>
        /\ result.outcome = "Ok"
        /\ result.instructions = [k \in 1..Len(function.instructions) |-> SameNamed(function.instructions[k])]
        /\ result.line_info = function.line_info
        /\ constants = function.constants

\* What the raw value of the field means in the input.
Meant ==
    LET raw == exercise.input.raw
        bit == Pow2(settings.lua51.b_size - 1)
    IN  IF version = "Lua50"
            THEN IF raw >= settings.lua50.stack_limit
                    THEN ConstantRegister(raw - settings.lua50.stack_limit, TRUE)
                    ELSE ConstantRegister(raw, FALSE)
        ELSE IF (raw \div bit) % 2 = 1 THEN ConstantRegister(raw - bit, TRUE)
        ELSE ConstantRegister(raw, FALSE)
\* The raw value the output field has to hold for the decoded operand.
RawOut ==
    IF exercise.first.is_constant
        THEN exercise.first.value + Pow2(settings.output.b_size - 1)
        ELSE exercise.first.value
\* The index is above the output's maximum constant index.
AboveMaximum == exercise.first.value > Pow2(settings.output.b_size - 1) - 1
\* put returned the word whose only bits are those of RawOut in the field.
WrittenOut ==
    LET operand == instruction_layout[exercise.field]
    IN  /\ exercise.second.outcome = "Ok"
        /\ exercise.second.value \subseteq {i \in BitPositions : i >= operand.position
                                                              /\ i < operand.position + operand.size}
        /\ ValueOf(shr(exercise.second.value, operand.position)) = RawOut
\* offset changed the register form from stack_start on, and nothing else.
MovedOut ==
    exercise.second =
        IF ~exercise.first.is_constant /\ exercise.first.value >= exercise.input.stack_start
            THEN ConstantRegister(exercise.first.value + exercise.input.offset, FALSE)
            ELSE exercise.first

AtForLoop ==
    /\ pc = "upcast" /\ index < ZipLen
    /\ function.instructions[index + 1].op = "ForLoop"
\* The builder on which the FORLOOP arm calls adjusted_jump_destination:
\* the SETGLOBAL and the FORLOOP are appended already.
ForLoopBuilder ==
    LET i == function.instructions[index + 1]
        b == set_line_number(builder, function.line_info[index + 1], index)
        global_constant == create_unique(constants, get_program_counter(b), settings)
        b1 == builder_instruction(b, Instruction("SetGlobal", i.a + 3, Bx(global_constant.index)))
    IN  last_instruction_offset(extra_instruction(b1, Instruction("ForLoop", i.a, i.mode)), 0 - 1)
\* The positions of the entries emitted for input instruction k.
EmittedFor(b, k) == {p \in 0..(Len(b.contexts) - 1) : b.contexts[p + 1].emitted_for = k}
\* Position p is that of the first entry emitted for input instruction k.
FirstEmittedFor(b, k, p) == p \in EmittedFor(b, k) /\ \A q \in EmittedFor(b, k) : p <= q

\* C26: adjusted_jump_destination(bx) returns UnexpectedForwardJump for
\* every bx > 0; for bx <= 0 it returns the index of the first instruction
\* emitted for the input instruction the jump reaches, a valid insert
\* position (0 <= index < number of instructions).
C26_InsertPosition ==
    AtForLoop =>
        LET bx == function.instructions[index + 1].mode.bx
            position == adjusted_jump_destination(ForLoopBuilder, bx)
        IN  IF bx > 0 THEN position.outcome = "UnexpectedForwardJump"
            ELSE /\ position.outcome = "Ok"
                 /\ position.position \in 0..(Len(ForLoopBuilder.contexts) - 1)
                 /\ FirstEmittedFor(ForLoopBuilder, index + 1 + bx, position.position)


\* from_specification accepted the specification.
Accepted == pc = "laid out" /\ instruction_layout.outcome = "Ok"
\* The bits the four fields of the layout take together.
PackedSize ==
    instruction_layout.opcode.size + instruction_layout.a.size
        + instruction_layout.b.size + instruction_layout.c.size
\* Every field, Bx included, ends inside a word of the given width.
InsideWord(width) ==
    \A field \in {"opcode", "a", "b", "c", "bx"} :
        instruction_layout[field].position + instruction_layout[field].size <= width

\* C27: every layout accepted by from_specification fits the instruction
\* word: the sizes of opcode, A, B and C add up to no more than the
\* instruction width (the widest being 64 bits), and every field, Bx
\* included, lies inside the word.
C27_FitsWord == Accepted => PackedSize <= Cardinality(BitPositions) /\ InsideWord(Cardinality(BitPositions))

\* The bytes that remained when the last read of the stream began.
Remained == Max(0, Len(exercise.input.data) - exercise.second.at)
\* The size_t at the head of the last read, as the length it stands for:
\* a negative one is, as usize, a length beyond every input.
PrefixOfString ==
    ByteStream_size_t(exercise.input.data, exercise.second.at, output_format)
\* The last read needed more bytes than remained.
NeededMore ==
    IF exercise.second.op = "string"
        THEN \/ PrefixOfString.outcome # "Ok"
             \/ PrefixOfString.value < 0
             \/ BitWidth_into(output_format.size_t_width) + PrefixOfString.value > Remained
        ELSE exercise.second.length > Remained

\* C28: every read of a ByteStream that needs more bytes than remain
\* returns InputTooShort: byte, integer, size_t, instruction, number,
\* slice(n), and string for every value of its length prefix.
C28_InputTooShort ==
    (pc = "stream" /\ exercise.input.reads > 0 /\ NeededMore) => exercise.first.outcome = "InputTooShort"


\* The sum over the entries of the builder of 1 - line_weight.
RECURSIVE Counted(_)
Counted(contexts) ==
    IF contexts = <<>> THEN 0
    ELSE 1 - contexts[1].line_weight + Counted(Tail(contexts))
\* The loop of upcast or of convert is between two input instructions, or
\* the function came out of finalize.
BetweenInstructions == pc \in {"upcast", "convert"} \/ (Finalized /\ Returned)
\* Appending an extra instruction, inserting one at any position and removing
\* any entry but the last leave the sum of the builder as it is.
ExtrasKeepCount ==
    LET nop == Instruction("Move", 0, BC(Unused, Unused))
    IN  /\ Counted(extra_instruction(builder, nop).contexts) = Counted(builder.contexts)
        /\ \A p \in 0..(Len(builder.contexts) - 1) :
            /\ Counted(insert_extra_instruction(builder, p, nop).contexts) = Counted(builder.contexts)
            /\ ~remove_instruction_panics(builder, p) =>
                    Counted(remove_instruction(builder, p).contexts) = Counted(builder.contexts)

\* C29: in upcast and convert, after the k-th input instruction was
\* processed the sum over all builder entries of 1 - line_weight is k,
\* however many extra instructions were appended or inserted and SetLists
\* removed; appending or inserting an extra instruction and removing an
\* instruction leave the sum unchanged.
C29_CountedInstructions ==
    BetweenInstructions => Counted(builder.contexts) = index /\ ExtrasKeepCount

\* A SetList was removed and extra instructions were inserted and appended
\* before the function came out of finalize.
C29_Witness ==
    /\ Finalized /\ Returned
    /\ index > 0
    /\ \E p \in 1..Len(builder.contexts) : builder.contexts[p].line_weight < 0
    /\ \E p \in 1..Len(builder.contexts) : builder.contexts[p].line_weight > 0

\* The pool begins with the constants of the other pool, in their order.
BeginsWith(pool, other) ==
    /\ Len(pool) >= Len(other)
    /\ SubSeq(pool, 1, Len(other)) = other

\* C30: upcast only appends to the constant pool: after any sequence of
\* create_unique, constant_for_str and constant_nil calls the input
\* constants are at their original indices with unchanged values; convert
\* never changes the pool.
C30_OnlyAppends ==
    /\ BeginsWith(constants, function.constants)
    /\ \A k \in 1..Len(calls) : BeginsWith(calls[k].after, calls[k].before)
    /\ version = "Lua51" => constants = function.constants

\* upcast returned a function whose pool it made longer by more than one
\* constant.
C30_Witness ==
    /\ Returned
    /\ version = "Lua50"
    /\ function.constants # <<>>
    /\ Len(constants) > Len(function.constants) + 1
====
